---------------------------- MODULE Spec2Model ----------------------------
(***************************************************************************)
(* A model of the workbench core: the sliding-window RateLimiter           *)
(* (internal/ratelimit.go), the single-user AuthController                 *)
(* (controllers/workbench.go, AuthController revision with the ":signup"   *)
(* and ":signin" limiter keys) and the repository lifecycle                *)
(* CloneRepository / PullRepository / DeleteRepository                     *)
(* (internal/repositories.go, revision with the case-insensitive lookup).  *)
(*                                                                         *)
(* The specifications share the variables:                                 *)
(*   SpecRL   - callers of RateLimiter.Allow, the cleanup goroutine, clock  *)
(*   Spec     - concurrent requests to signup / signin / signout and the   *)
(*              Required access check                                      *)
(*   SpecRepo - concurrent requests to the protected repository routes     *)
(*   SpecLife - one client's clone, clone, delete, clone of one repository *)
(*   SpecParse - calls of parseRepoName on a family of urls                *)
(*   SpecKeys - signup and signin requests from several connections        *)
(*   SpecGate - the access check while the user record is deleted          *)
(* Each leaves the variables of the other parts at their initial values.   *)
(***************************************************************************)
EXTENDS Integers, Sequences, FiniteSets, TLC

VARIABLES
    \* ---- RateLimiter (internal/ratelimit.go) ----
    now,        \* the wall clock read by time.Now(), in seconds
    attempts,   \* rl.attempts: map key -> slice of timestamps (absent keys are not in DOMAIN)
    mu,         \* rl.mu: "free" or the goroutine that holds it
    rlpc,       \* per calling goroutine: "idle" | "waiting" (at rl.mu.Lock) | "locked"
    rlkey,      \* per calling goroutine: the key it passed to Allow
    accepted,   \* history: per key, the times of accepted calls that lie in the window ending now
    lastCall,   \* history: the most recent Allow call: its key, time, result, what preceded it
    rej,        \* history: per key, the oldest attempt counted by the latest rejection,
                \* and whether a call was accepted since
    plain,      \* history: rl.attempts of a limiter that got the same calls at the same
                \* times and whose cleanup goroutine never ran
    \* ---- user store, sessions, activity log (models.Auth, models.Activities) ----
    users,      \* models.Auth.Users: the set of user records
    sessions,   \* models.Auth.Sessions: the inserted session records, in order
    activities, \* models.Activities: the inserted activity records, in order
    issued,     \* the user ids for which a signed session token was handed out
    \* ---- requests being served, one goroutine each ----
    req,        \* per request slot: position in its handler, inputs, locals, response
    started,    \* how many requests have been accepted so far
    signedUp,   \* history: a signup request has completed successfully
    \* ---- repositories (models.Repositories, the coder container) ----
    repos,      \* models.Repositories: the repository records, in insertion order
    dirs,       \* the directories that exist in the container's file system
    coderUp,    \* services.Coder.IsRunning()
    pending,    \* activity records handed to "go models.Activities.Insert", not yet inserted
    hist,       \* history: what the calls of the lifecycle scenario returned, in order
    \* ---- a call of the pure function parseRepoName ----
    parse,      \* the url passed, and the name returned once the call has returned
    \* ---- a failed or successful git clone command as CloneRepository sees it ----
    classify    \* what the command returned, and what CloneRepository does next

rlvars == <<now, attempts, mu, rlpc, rlkey, accepted, lastCall, rej, plain>>
rlhist == <<mu, rlpc, rlkey, accepted, lastCall, rej, plain>>
repovars == <<repos, dirs, coderUp, pending, hist, parse, classify>>
authvars == <<users, sessions, activities, issued, req, started, signedUp, repos, dirs, coderUp, pending, hist, parse, classify>>
vars == <<now, attempts, mu, rlpc, rlkey, accepted, lastCall, rej, plain,
          users, sessions, activities, issued, req, started, signedUp,
          repos, dirs, coderUp, pending, hist, parse, classify>>

---------------------------------------------------------------------------
(* RateLimiter                                                             *)

\* NewRateLimiter(5, time.Minute): the cap N and the window W in seconds.
limit == 5
window == 60

\* How far the model's clock runs, and the goroutines calling Allow.
MaxTime == 61
Callers == {"g1", "g2"}
Keys == {"10.0.0.1:51234:signin", "10.0.0.1:51234:signup"}

\* The clock is observed at these distances: half a window (so that two
\* timestamps can be less than, exactly, or more than W apart) and W + 1.
TickSteps == {window \div 2, window + 1}

None == 0 - 1

\* The request slots (goroutines of net/http) and how many requests are served.
Reqs == {"r1", "r2"}
MaxRequests == 3

\* A slot with no request in it.
IdleReq == [pc |-> "idle", kind |-> "none"]

\* rl.attempts[key] of a Go map: the nil slice for an absent key.
Lookup(m, key) == IF key \in DOMAIN m THEN m[key] ELSE <<>>

\* m with m[key] = v (Go map assignment creates the key).
Store(m, key, v) == [k \in (DOMAIN m) \cup {key} |-> IF k = key THEN v ELSE m[k]]

\* A test that also passes the instant of the cutoff.
AfterOrAt(t, cutoff) == t >= cutoff

\* t.After(cutoff)
After(t, cutoff) == t > cutoff

\* A loop that forgets to drop the old timestamps.
RecentKeepsAll(ts, cutoff) == ts

\* The loop of lines 37-42 / 63-68: the timestamps after the cutoff, in order.
Recent(ts, cutoff) == SelectSeq(ts, LAMBDA t : After(t, cutoff))

\* A limit check that is off by one.
OverLimitOffByOne(recent) == Len(recent) > limit

\* len(recent) >= rl.limit
OverLimit(recent) == Len(recent) >= limit

\* A rejection that records the rejected attempt.
OnRejectRecords(recent, t) == Append(recent, t)

\* The slice Allow stores on a rejection (line 46).
OnReject(recent, t) == recent

\* The body of Allow between Lock and Unlock, at time t on history ts:
\* the returned bool and the slice stored back under the key.
AllowBody(ts, t) ==
    LET recent == Recent(ts, t - window)
    IN  IF OverLimit(recent)
        THEN [ok |-> FALSE, store |-> OnReject(recent, t)]
        ELSE [ok |-> TRUE,  store |-> Append(recent, t)]

\* A cleanup round that deletes the aged-out keys and leaves the others as they are.
CleanupBodyDeleteOnly(m, t) ==
    LET live == {k \in DOMAIN m : Len(Recent(m[k], t - window)) # 0}
    IN  [k \in live |-> m[k]]

\* A cleanup round that takes the present moment for its cutoff.
CleanupCutoffNow(t) == t

\* cutoff := time.Now().Add(-rl.window) of a cleanup round at time t
CleanupCutoff(t) == t - window

\* The body of one cleanup round at time t: keys whose history aged out are
\* deleted, the others keep their recent timestamps.
CleanupBody(m, t) ==
    LET live == {k \in DOMAIN m : Len(Recent(m[k], CleanupCutoff(t))) # 0}
    IN  [k \in live |-> Recent(m[k], CleanupCutoff(t))]

\* History bookkeeping (not program state): accepted times still in the window ending at t.
InWindow(ts, t) == SelectSeq(ts, LAMBDA a : t - a < window)

NoCall == [key |-> "none", t |-> None, ok |-> FALSE, counted |-> 0,
           rejOldest |-> None, accSince |-> FALSE]
NoRej == [oldest |-> None, accSince |-> FALSE]

\* No call of parseRepoName is followed.
NoParse == [url |-> <<>>, name |-> <<>>, done |-> FALSE]

\* No git clone command has returned.
NoClassify == [err |-> FALSE, output |-> {}, next |-> [pc |-> "none", result |-> "none"], done |-> FALSE]

\* Before any request: application.Serve has just started on an empty database.
AuthEmpty ==
    /\ users = {}
    /\ sessions = <<>>
    /\ activities = <<>>
    /\ issued = {}
    /\ req = [r \in Reqs |-> IdleReq]
    /\ started = 0
    /\ signedUp = FALSE
    /\ repos = <<>>
    /\ dirs = {}
    /\ coderUp = TRUE
    /\ pending = <<>>
    /\ hist = <<>>
    /\ parse = NoParse
    /\ classify = NoClassify

InitRL ==
    /\ now = 0
    /\ attempts = << >>
    /\ mu = "free"
    /\ rlpc = [c \in Callers |-> "idle"]
    /\ rlkey = [c \in Callers |-> "none"]
    /\ accepted = [k \in Keys |-> <<>>]
    /\ lastCall = NoCall
    /\ rej = [k \in Keys |-> NoRej]
    /\ plain = attempts
    /\ AuthEmpty

\* A goroutine calls Allow(key) and reaches rl.mu.Lock().
AllowCall(c, key) ==
    /\ rlpc[c] = "idle"
    /\ rlpc' = [rlpc EXCEPT ![c] = "waiting"]
    /\ rlkey' = [rlkey EXCEPT ![c] = key]
    /\ UNCHANGED <<now, attempts, mu, accepted, lastCall, rej, plain>>
    /\ UNCHANGED authvars

\* rl.mu.Lock() returns.
AllowLock(c) ==
    /\ rlpc[c] = "waiting"
    /\ mu = "free"
    /\ mu' = c
    /\ rlpc' = [rlpc EXCEPT ![c] = "locked"]
    /\ UNCHANGED <<now, attempts, rlkey, accepted, lastCall, rej, plain>>
    /\ UNCHANGED authvars

\* Lines 33-53 and the deferred Unlock: the call returns r.ok.
AllowRun(c) ==
    /\ rlpc[c] = "locked"
    /\ mu = c
    /\ LET key == rlkey[c]
           r == AllowBody(Lookup(attempts, key), now)
           seen == InWindow(accepted[key], now)
       IN  /\ attempts' = Store(attempts, key, r.store)
           /\ accepted' = [accepted EXCEPT ![key] = IF r.ok THEN Append(seen, now) ELSE seen]
           /\ plain' = Store(plain, key, AllowBody(Lookup(plain, key), now).store)
           /\ lastCall' = [key |-> key, t |-> now, ok |-> r.ok, counted |-> Len(seen),
                           rejOldest |-> rej[key].oldest, accSince |-> rej[key].accSince]
           /\ rej' = [rej EXCEPT ![key] =
                  IF r.ok
                  THEN [oldest |-> rej[key].oldest, accSince |-> rej[key].oldest # None]
                  ELSE [oldest |-> IF seen = <<>> THEN None ELSE seen[1],
                        accSince |-> FALSE]]
    /\ mu' = "free"
    /\ rlpc' = [rlpc EXCEPT ![c] = "idle"]
    /\ rlkey' = [rlkey EXCEPT ![c] = "none"]
    /\ UNCHANGED now
    /\ UNCHANGED authvars

\* The ticker of cleanup fires and the goroutine takes the lock (line 60).
CleanupLock ==
    /\ mu = "free"
    /\ mu' = "cleanup"
    /\ UNCHANGED <<now, attempts, rlpc, rlkey, accepted, lastCall, rej, plain>>
    /\ UNCHANGED authvars

\* Lines 61-75.
CleanupRun ==
    /\ mu = "cleanup"
    /\ attempts' = CleanupBody(attempts, now)
    /\ mu' = "free"
    /\ UNCHANGED <<now, rlpc, rlkey, accepted, lastCall, rej, plain>>
    /\ UNCHANGED authvars

\* Time passes.
Tick(d) ==
    /\ now + d <= MaxTime
    /\ now' = now + d
    /\ accepted' = [k \in Keys |-> InWindow(accepted[k], now + d)]
    /\ UNCHANGED <<attempts, mu, rlpc, rlkey, lastCall, rej, plain>>
    /\ UNCHANGED authvars

NextRL ==
    \/ \E c \in Callers, key \in Keys : AllowCall(c, key)
    \/ \E c \in Callers : AllowLock(c)
    \/ \E c \in Callers : AllowRun(c)
    \/ CleanupLock
    \/ CleanupRun
    \/ \E d \in TickSteps : Tick(d)

SpecRL == InitRL /\ [][NextRL]_vars

---------------------------------------------------------------------------
(* Claims about the RateLimiter, checked under SpecRL                      *)

\* C1: for every key, under every interleaving of Allow calls and cleanup
\* rounds, at most N accepted calls lie in any rolling window of duration W
\* (every window ends at a time the clock shows), and a call is accepted
\* exactly when fewer than N accepted calls lie in its window: from an empty
\* history the first N calls of a window are accepted, the (N+1)th rejected.
C1_AtMostNPerWindow ==
    /\ \A k \in Keys : Len(InWindow(accepted[k], now)) <= limit
    /\ lastCall.key # "none" => (lastCall.ok <=> lastCall.counted < limit)

\* The (N+1)th call of a window was rejected while another caller waits for the lock.
C1_Witness ==
    /\ lastCall.key # "none"
    /\ ~lastCall.ok
    /\ lastCall.counted = limit
    /\ Len(accepted[lastCall.key]) = limit
    /\ \E c \in Callers : rlpc[c] = "waiting"

\* The call that lastCall describes came after a rejection of its key and
\* strictly later than W after the oldest attempt that rejection counted.
AfterLockout ==
    /\ lastCall.key # "none"
    /\ lastCall.rejOldest # None
    /\ lastCall.t > lastCall.rejOldest + window

---------------------------------------------------------------------------
(* AuthController (controllers/workbench.go, lines 384-657)                *)

\* r.RemoteAddr of the requests, and the limiter keys the handlers build.
Addrs == {"10.0.0.1:51234"}

\* strings.ToLower and strings.TrimSpace on the form values that occur.
ToLower(s) ==
    CASE s = " Ann" -> " ann"
      [] s = "Ann" -> "ann"
      [] s = "Bob" -> "bob"
      [] OTHER -> s

TrimSpace(s) ==
    CASE s = " " -> ""
      [] s = " ann" -> "ann"
      [] s = " Ann" -> "Ann"
      [] OTHER -> s

\* The form values posted to /_auth/signup and /_auth/signin.
SignupForms ==
    { [name |-> "Ann", handle |-> " Ann", email |-> "ann@x.io", password |-> "correct-horse"],
      [name |-> "Bob", handle |-> "Bob", email |-> "bob@x.io", password |-> "hunter2-hunter2"],
      [name |-> " ", handle |-> "bob", email |-> "bob@x.io", password |-> "hunter2-hunter2"],
      [name |-> "Bob", handle |-> "bob", email |-> "bob@x.io", password |-> "pw"] }

SigninForms ==
    { [name |-> "", handle |-> " Ann", email |-> "", password |-> "correct-horse"],
      [name |-> "", handle |-> "ann@x.io", email |-> "", password |-> "wrong"],
      [name |-> "", handle |-> "carol", email |-> "", password |-> "correct-horse"],
      [name |-> "", handle |-> " ", email |-> "", password |-> "correct-horse"] }

NoForm == [name |-> "", handle |-> "", email |-> "", password |-> ""]

\* Cookies a request can carry: none, a value that is no token, or a signed
\* token naming a user id (expired or not).  StaleToken is a well-signed,
\* unexpired token whose user id is in no user record.
NoCookie == [kind |-> "none", uid |-> 0, expired |-> FALSE]
Malformed == [kind |-> "malformed", uid |-> 0, expired |-> FALSE]
Cleared == [kind |-> "cleared", uid |-> 0, expired |-> FALSE]
Token(uid, expired) == [kind |-> "token", uid |-> uid, expired |-> expired]
StaleToken == Token(99, FALSE)
Cookies == {NoCookie, Malformed, StaleToken} \cup {Token(u, e) : u \in issued, e \in BOOLEAN}

\* How many blank-field signin and signup requests came from the address
\* before the requests the model follows: such a request records one
\* limiter attempt and changes nothing else.
PriorBlank == {0, limit - 1}

\* models.Activity as LogActivity / LogUserActivity fill it.
Activity(type, author, description) ==
    [type |-> type, repository |-> "", description |-> description, author |-> author]

\* No activity record.
NoActivity == [type |-> "none", repository |-> <<>>, description |-> <<>>, author |-> "none"]

\* No repository record (a nil *models.Repository).
NoRepo == [name |-> <<>>, url |-> <<>>, path |-> <<>>, private |-> FALSE]

\* A request entering its handler.
NewReq(kind, pc, addr, form, cookie) ==
    [pc |-> pc, kind |-> kind, addr |-> addr, form |-> form, cookie |-> cookie,
     result |-> "none", setCookie |-> NoCookie, uid |-> 0,
     \* history of this request
     afterSuccess |-> signedUp, madeUser |-> FALSE, madeSession |-> FALSE,
     logged |-> "none", cause |-> "none", sawUsers |-> None,
     \* the repository routes: form values, locals, and the history of this request
     url |-> <<>>, name |-> <<>>, found |-> NoRepo,
     passed |-> FALSE, execs |-> {}, wrote |-> FALSE, cloned |-> FALSE, dupAtFind |-> FALSE,
     missAtFind |-> FALSE, testDir |-> FALSE, testUp |-> FALSE,
     rmFailed |-> FALSE, removed |-> FALSE, queued |-> NoActivity,
     limited |-> FALSE]

\* One limiter key per client address, shared by the actions.
LimiterKeyShared(addr, action) == addr

\* clientIP + ":signup", clientIP + ":signin"
LimiterKey(addr, action) == addr \o ":" \o action

\* A single-user check that lets a second user in.
AlreadyInitializedOffByOne(count) == count > 1

\* c.Collection.Users.Count("") > 0
AlreadyInitialized(count) == count > 0

\* The signin error that tells the caller why the lookup failed.
SigninErrorTelling(cause) ==
    IF cause = "nouser" THEN "Unknown user" ELSE "Invalid credentials"

\* errors.New("Invalid credentials"), whatever c.Collection.Signin returned
SigninError(cause) == "Invalid credentials"

\* c.Collection.Signin(handle, password): the user whose handle or email is
\* `handle` and whose password matches; uid 0 and the cause when it fails.
CollectionSignin(us, handle, password) ==
    LET named == {u \in us : u.handle = handle \/ u.email = handle}
        match == {u \in named : u.password = password}
    IN  IF named = {} THEN [uid |-> 0, cause |-> "nouser"]
        ELSE IF match = {} THEN [uid |-> 0, cause |-> "wrongpw"]
        ELSE [uid |-> (CHOOSE u \in match : TRUE).id, cause |-> "none"]

\* A check that trusts a valid token without looking the user up.
GetAuthenticatedUserTrustsToken(us, cookie) ==
    IF cookie.kind # "token" THEN 0
    ELSE IF cookie.expired THEN 0
    ELSE cookie.uid

\* GetAuthenticatedUser / CurrentUser: the id of the user the cookie's token
\* names, 0 (nil) when the cookie is missing, the token does not validate
\* or the id resolves to no user.
GetAuthenticatedUser(us, cookie) ==
    IF cookie.kind # "token" THEN 0
    ELSE IF cookie.expired THEN 0
    ELSE IF ~(\E u \in us : u.id = cookie.uid) THEN 0
    ELSE cookie.uid

\* An access check that looks at the cookie before it counts the users.
RequiredCookieFirst(us, cookie) ==
    IF GetAuthenticatedUser(us, cookie) = 0
    THEN [ok |-> FALSE, render |-> "signin.html"]
    ELSE IF Cardinality(us) = 0
    THEN [ok |-> FALSE, render |-> "signup.html"]
    ELSE [ok |-> TRUE, render |-> "none"]

\* AuthController.Required
Required(us, cookie) ==
    IF Cardinality(us) = 0
    THEN [ok |-> FALSE, render |-> "signup.html"]
    ELSE IF GetAuthenticatedUser(us, cookie) = 0
    THEN [ok |-> FALSE, render |-> "signin.html"]
    ELSE [ok |-> TRUE, render |-> "none"]

HandleOf(us, uid) == (CHOOSE u \in us : u.id = uid).handle

\* The handler returns: the response is complete.
Done(r, result) == req' = [req EXCEPT ![r].pc = "done", ![r].result = result]

InitAuth ==
    /\ now = 0
    /\ \E j \in PriorBlank :
          attempts = IF j = 0 THEN << >> ELSE [k \in Keys |-> [i \in 1..j |-> 0]]
    /\ mu = "free"
    /\ rlpc = [c \in Callers |-> "idle"]
    /\ rlkey = [c \in Callers |-> "none"]
    /\ accepted = [k \in Keys |-> <<>>]
    /\ lastCall = NoCall
    /\ rej = [k \in Keys |-> NoRej]
    /\ plain = attempts
    /\ AuthEmpty

\* A signup handler that asks the limiter before anything else.
SignupFirstStepRate == "rate"

\* The first check of handleSignup: the user count (lines 446-450).
SignupFirstStep == "count"

\* POST /_auth/signup arrives.
StartSignup(r, addr, form) ==
    /\ req[r].pc = "idle"
    /\ started < MaxRequests
    /\ started' = started + 1
    /\ req' = [req EXCEPT ![r] = NewReq("signup", SignupFirstStep, addr, form, NoCookie)]
    /\ UNCHANGED <<users, sessions, activities, issued, signedUp, now, attempts, rlhist, repovars>>

\* Lines 446-450.
SignupCount(r) ==
    /\ req[r].kind = "signup"
    /\ req[r].pc = "count"
    /\ IF AlreadyInitialized(Cardinality(users))
       THEN Done(r, "AlreadyInitialized")
       ELSE req' = [req EXCEPT ![r].pc = "rate"]
    /\ UNCHANGED <<users, sessions, activities, issued, started, signedUp, now, attempts, rlhist, repovars>>

\* Lines 452-469: the limiter, then the form values and their validation.
SignupRate(r) ==
    /\ req[r].kind = "signup"
    /\ req[r].pc = "rate"
    /\ LET key == LimiterKey(req[r].addr, "signup")
           a == AllowBody(Lookup(attempts, key), now)
           f == req[r].form
           norm == [name |-> TrimSpace(f.name),
                    handle |-> TrimSpace(ToLower(f.handle)),
                    email |-> TrimSpace(ToLower(f.email)),
                    password |-> f.password]
       IN  /\ attempts' = Store(attempts, key, a.store)
           /\ IF ~a.ok THEN Done(r, "RateLimited")
              ELSE IF norm.name = "" \/ norm.handle = "" \/ norm.email = "" \/ norm.password = ""
              THEN Done(r, "ValidationError")
              ELSE req' = [req EXCEPT ![r].pc = "create", ![r].form = norm]
    /\ UNCHANGED <<users, sessions, activities, issued, started, signedUp, now, rlhist, repovars>>

\* Lines 471-486: c.Collection.Signup inserts the user unless the store
\* refuses (an error, or the handle or email is taken); then the token is
\* generated and the cookie set.
SignupCreate(r) ==
    /\ req[r].kind = "signup"
    /\ req[r].pc = "create"
    /\ \E dbOK \in BOOLEAN, tokOK \in BOOLEAN :
          LET f == req[r].form
              taken == \E u \in users : u.handle = f.handle \/ u.email = f.email
              id == Cardinality(users) + 1
              user == [id |-> id, name |-> f.name, handle |-> f.handle, email |-> f.email,
                       password |-> f.password, admin |-> TRUE]
          IN  IF ~dbOK \/ taken
              THEN /\ Done(r, "SignupFailed")
                   /\ UNCHANGED <<users, issued>>
              ELSE /\ users' = users \cup {user}
                   /\ IF ~tokOK
                      THEN /\ req' = [req EXCEPT ![r].pc = "done", ![r].result = "TokenFailed",
                                                 ![r].uid = id, ![r].madeUser = TRUE]
                           /\ UNCHANGED issued
                      ELSE /\ req' = [req EXCEPT ![r].pc = "session", ![r].uid = id,
                                                 ![r].madeUser = TRUE,
                                                 ![r].setCookie = Token(id, FALSE)]
                           /\ issued' = issued \cup {id}
    /\ UNCHANGED <<sessions, activities, started, signedUp, now, attempts, rlhist, repovars>>

\* Lines 488-491: the session record is inserted and the result of the
\* insert, its error included, is discarded; the handler goes on either way.
SignupSession(r) ==
    /\ req[r].kind = "signup"
    /\ req[r].pc = "session"
    /\ \E dbOK \in BOOLEAN :
          /\ sessions' = IF dbOK THEN Append(sessions, [uid |-> req[r].uid]) ELSE sessions
          /\ req' = [req EXCEPT ![r].pc = "log", ![r].madeSession = dbOK]
    /\ UNCHANGED <<users, activities, issued, started, signedUp, now, attempts, rlhist, repovars>>

\* Lines 493-497.
SignupLog(r) ==
    /\ req[r].kind = "signup"
    /\ req[r].pc = "log"
    /\ activities' = Append(activities,
                            Activity("user_signup", req[r].form.name, "User created account"))
    /\ req' = [req EXCEPT ![r].pc = "done", ![r].result = "ok", ![r].logged = "user_signup"]
    /\ signedUp' = TRUE
    /\ UNCHANGED <<users, sessions, issued, started, now, attempts, rlhist, repovars>>

\* POST /_auth/signin arrives.
StartSignin(r, addr, form) ==
    /\ req[r].pc = "idle"
    /\ started < MaxRequests
    /\ started' = started + 1
    /\ req' = [req EXCEPT ![r] = NewReq("signin", "rate", addr, form, NoCookie)]
    /\ UNCHANGED <<users, sessions, activities, issued, signedUp, now, attempts, rlhist, repovars>>

\* A signin that the limiter rejects goes on to verify the credentials.
SigninOnRejectGoesOn == "auth"

\* handleSignin when the limiter rejects: the error is rendered, the
\* rejection logged, and the handler returns.
SigninOnReject == "ratelog"

\* Lines 504-518: the limiter (its error is rendered before it is logged),
\* then the form values and their validation.
SigninRate(r) ==
    /\ req[r].kind = "signin"
    /\ req[r].pc = "rate"
    /\ LET key == LimiterKey(req[r].addr, "signin")
           a == AllowBody(Lookup(attempts, key), now)
           f == req[r].form
           norm == [f EXCEPT !.handle = TrimSpace(ToLower(f.handle))]
       IN  /\ attempts' = Store(attempts, key, a.store)
           /\ IF ~a.ok
              THEN req' = [req EXCEPT ![r].pc = SigninOnReject, ![r].result = "RateLimited",
                                      ![r].limited = TRUE]
              ELSE IF norm.handle = "" \/ norm.password = ""
              THEN Done(r, "ValidationError")
              ELSE req' = [req EXCEPT ![r].pc = "auth", ![r].form = norm]
    /\ UNCHANGED <<users, sessions, activities, issued, started, signedUp, now, rlhist, repovars>>

\* Lines 508-509.
SigninRateLog(r) ==
    /\ req[r].kind = "signin"
    /\ req[r].pc = "ratelog"
    /\ activities' = Append(activities,
                            Activity("signin_rate_limited", "System", "Signin rate limited"))
    /\ req' = [req EXCEPT ![r].pc = "done", ![r].logged = "signin_rate_limited"]
    /\ UNCHANGED <<users, sessions, issued, started, signedUp, now, attempts, rlhist, repovars>>

\* Lines 520-536: c.Collection.Signin, then the token and the cookie.
SigninAuth(r) ==
    /\ req[r].kind = "signin"
    /\ req[r].pc = "auth"
    /\ LET l == CollectionSignin(users, req[r].form.handle, req[r].form.password)
       IN  IF l.uid = 0
           THEN /\ req' = [req EXCEPT ![r].pc = "faillog", ![r].cause = l.cause]
                /\ UNCHANGED issued
           ELSE \E tokOK \in BOOLEAN :
                   IF ~tokOK
                   THEN /\ req' = [req EXCEPT ![r].pc = "done", ![r].result = "TokenFailed",
                                              ![r].uid = l.uid]
                        /\ UNCHANGED issued
                   ELSE /\ req' = [req EXCEPT ![r].pc = "session", ![r].uid = l.uid,
                                              ![r].setCookie = Token(l.uid, FALSE)]
                        /\ issued' = issued \cup {l.uid}
    /\ UNCHANGED <<users, sessions, activities, started, signedUp, now, attempts, rlhist, repovars>>

\* Lines 523-525.
SigninFailLog(r) ==
    /\ req[r].kind = "signin"
    /\ req[r].pc = "faillog"
    /\ activities' = Append(activities,
                            Activity("signin_failed", "System", "Failed signin attempt"))
    /\ req' = [req EXCEPT ![r].pc = "done", ![r].result = SigninError(req[r].cause),
                          ![r].logged = "signin_failed"]
    /\ UNCHANGED <<users, sessions, issued, started, signedUp, now, attempts, rlhist, repovars>>

\* Lines 538-541: as in handleSignup, the result of the insert is discarded.
SigninSession(r) ==
    /\ req[r].kind = "signin"
    /\ req[r].pc = "session"
    /\ \E dbOK \in BOOLEAN :
          /\ sessions' = IF dbOK THEN Append(sessions, [uid |-> req[r].uid]) ELSE sessions
          /\ req' = [req EXCEPT ![r].pc = "log", ![r].madeSession = dbOK]
    /\ UNCHANGED <<users, activities, issued, started, signedUp, now, attempts, rlhist, repovars>>

\* Lines 543-547.
SigninLog(r) ==
    /\ req[r].kind = "signin"
    /\ req[r].pc = "log"
    /\ activities' = Append(activities,
                            Activity("user_signin", HandleOf(users, req[r].uid), "User signed in"))
    /\ req' = [req EXCEPT ![r].pc = "done", ![r].result = "ok", ![r].logged = "user_signin"]
    /\ UNCHANGED <<users, sessions, issued, started, signedUp, now, attempts, rlhist, repovars>>

\* POST /_auth/signout arrives.
StartSignout(r, addr, cookie) ==
    /\ req[r].pc = "idle"
    /\ started < MaxRequests
    /\ started' = started + 1
    /\ req' = [req EXCEPT ![r] = NewReq("signout", "clear", addr, NoForm, cookie)]
    /\ UNCHANGED <<users, sessions, activities, issued, signedUp, now, attempts, rlhist, repovars>>

\* A signout that deletes the session records of the user it signs out.
SessionsAfterSignoutDeleted(ss, uid) == SelectSeq(ss, LAMBDA x : x.uid # uid)

\* handleSignout makes no call on models.Auth.Sessions: the records stay.
SessionsAfterSignout(ss, uid) == ss

\* Lines 554-558: CurrentUser, then the cookie is cleared.
SignoutClear(r) ==
    /\ req[r].kind = "signout"
    /\ req[r].pc = "clear"
    /\ LET uid == GetAuthenticatedUser(users, req[r].cookie)
       IN  /\ req' = [req EXCEPT ![r].pc = IF uid # 0 THEN "log" ELSE "done",
                                  ![r].result = IF uid # 0 THEN "none" ELSE "ok",
                                  ![r].uid = uid, ![r].setCookie = Cleared]
           /\ sessions' = SessionsAfterSignout(sessions, uid)
    /\ UNCHANGED <<users, activities, issued, started, signedUp, now, attempts, rlhist, repovars>>

\* Lines 560-566.
SignoutLog(r) ==
    /\ req[r].kind = "signout"
    /\ req[r].pc = "log"
    /\ activities' = Append(activities,
                            Activity("user_signout", HandleOf(users, req[r].uid), "User signed out"))
    /\ req' = [req EXCEPT ![r].pc = "done", ![r].result = "ok", ![r].logged = "user_signout"]
    /\ UNCHANGED <<users, sessions, issued, started, signedUp, now, attempts, rlhist, repovars>>

\* A request for a page served behind auth.Required arrives ("/", the partials).
StartPage(r, addr, cookie) ==
    /\ req[r].pc = "idle"
    /\ started < MaxRequests
    /\ started' = started + 1
    /\ req' = [req EXCEPT ![r] = NewReq("page", "gate", addr, NoForm, cookie)]
    /\ UNCHANGED <<users, sessions, activities, issued, signedUp, now, attempts, rlhist, repovars>>

\* Lines 606-623: the access check decides; the page or the inline form is rendered.
PageGate(r) ==
    /\ req[r].kind = "page"
    /\ req[r].pc = "gate"
    /\ LET g == Required(users, req[r].cookie)
       IN  req' = [req EXCEPT ![r].pc = "done",
                              ![r].result = IF g.ok THEN "allowed" ELSE g.render,
                              ![r].sawUsers = Cardinality(users)]
    /\ UNCHANGED <<users, sessions, activities, issued, started, signedUp, now, attempts, rlhist, repovars>>

\* The response has been written; the goroutine ends.
Respond(r) ==
    /\ req[r].pc = "done"
    /\ req' = [req EXCEPT ![r] = IdleReq]
    /\ UNCHANGED <<users, sessions, activities, issued, started, signedUp, now, attempts, rlhist, repovars>>

NextAuth ==
    \/ \E r \in Reqs, a \in Addrs, f \in SignupForms : StartSignup(r, a, f)
    \/ \E r \in Reqs : SignupCount(r)
    \/ \E r \in Reqs : SignupRate(r)
    \/ \E r \in Reqs : SignupCreate(r)
    \/ \E r \in Reqs : SignupSession(r)
    \/ \E r \in Reqs : SignupLog(r)
    \/ \E r \in Reqs, a \in Addrs, f \in SigninForms : StartSignin(r, a, f)
    \/ \E r \in Reqs : SigninRate(r)
    \/ \E r \in Reqs : SigninRateLog(r)
    \/ \E r \in Reqs : SigninAuth(r)
    \/ \E r \in Reqs : SigninFailLog(r)
    \/ \E r \in Reqs : SigninSession(r)
    \/ \E r \in Reqs : SigninLog(r)
    \/ \E r \in Reqs, a \in Addrs, c \in Cookies : StartSignout(r, a, c)
    \/ \E r \in Reqs : SignoutClear(r)
    \/ \E r \in Reqs : SignoutLog(r)
    \/ \E r \in Reqs, a \in Addrs, c \in Cookies : StartPage(r, a, c)
    \/ \E r \in Reqs : PageGate(r)
    \/ \E r \in Reqs : Respond(r)

Spec == InitAuth /\ [][NextAuth]_vars

---------------------------------------------------------------------------
(* Claims about the AuthController, checked under Spec                     *)

\* C3: a signup request that arrives after a signup has completed
\* successfully goes no further than the user count, ends with
\* AlreadyInitialized whatever its form holds, and creates no user, no
\* session and no cookie.
C3_SignupOnlyOnce ==
    \A r \in Reqs :
        (req[r].kind = "signup" /\ req[r].afterSuccess) =>
            /\ req[r].pc \in {"count", "done"}
            /\ req[r].pc = "done" => req[r].result = "AlreadyInitialized"
            /\ ~req[r].madeUser
            /\ ~req[r].madeSession
            /\ req[r].setCookie = NoCookie

\* A complete, valid form was posted after a successful signup and refused.
C3_Witness ==
    \E r \in Reqs :
        /\ req[r].kind = "signup"
        /\ req[r].afterSuccess
        /\ req[r].pc = "done"
        /\ req[r].result = "AlreadyInitialized"
        /\ req[r].form.handle = "Bob"
        /\ req[r].form.password = "hunter2-hunter2"

\* C4: in every reachable state, also when two signup requests are served
\* concurrently, the user store holds at most one user.
C4_AtMostOneUser == Cardinality(users) <= 1

\* What the caller of a signin request can observe of it.
SigninObs(r) ==
    [result |-> req[r].result, setCookie |-> req[r].setCookie,
     madeSession |-> req[r].madeSession, logged |-> req[r].logged]

\* C5: a signin that failed because the handle names no user and a signin
\* that failed because the password is wrong end with the same message and
\* the same side effects (the same activity entry, no session, no cookie).
C5_SigninNonEnumeration ==
    /\ \A r1, r2 \in Reqs :
          ( /\ req[r1].kind = "signin" /\ req[r1].pc = "done" /\ req[r1].cause = "nouser"
            /\ req[r2].kind = "signin" /\ req[r2].pc = "done" /\ req[r2].cause = "wrongpw" )
          => /\ SigninObs(r1) = SigninObs(r2)
             /\ req[r1].result = "Invalid credentials"
             /\ req[r1].setCookie = NoCookie
             /\ ~req[r1].madeSession
    /\ \A i, j \in 1..Len(activities) :
          (activities[i].type = "signin_failed" /\ activities[j].type = "signin_failed")
          => activities[i] = activities[j]

\* Both kinds of failed signin have completed side by side.
C5_Witness ==
    \E r1, r2 \in Reqs :
        /\ req[r1].kind = "signin" /\ req[r1].pc = "done" /\ req[r1].cause = "nouser"
        /\ req[r2].kind = "signin" /\ req[r2].pc = "done" /\ req[r2].cause = "wrongpw"

\* The cookie of request r carries a token that validates and names a user.
ValidSession(r) ==
    /\ req[r].cookie.kind = "token"
    /\ ~req[r].cookie.expired
    /\ \E u \in users : u.id = req[r].cookie.uid

\* C6: Required answers false with the signup form when no user exists,
\* whatever the cookie; else false with the signin form when the cookie is
\* missing or its token does not validate; else true.  It never answers
\* true while no user exists.
C6_RequiredDecision ==
    \A r \in Reqs :
        (req[r].kind = "page" /\ req[r].pc = "done") =>
            /\ req[r].sawUsers = 0 => req[r].result = "signup.html"
            /\ (req[r].sawUsers > 0 /\ ~ValidSession(r)) => req[r].result = "signin.html"
            /\ (req[r].sawUsers > 0 /\ ValidSession(r)) => req[r].result = "allowed"
            /\ req[r].result = "allowed" => req[r].sawUsers > 0

\* With no user, a request that presents a well-signed token got the signup
\* form, while another request was let through after a user had signed up.
C6_Witness ==
    \E r1, r2 \in Reqs :
        /\ req[r1].kind = "page" /\ req[r1].pc = "done"
        /\ req[r1].sawUsers = 0 /\ req[r1].cookie = StaleToken
        /\ req[r1].result = "signup.html"
        /\ req[r2].kind = "page" /\ req[r2].pc = "done" /\ req[r2].result = "allowed"


(***************************************************************************)
(* Repositories: internal.CloneRepository, PullRepository,                 *)
(* DeleteRepository and parseRepoName, and the handlers and routes of      *)
(* WorkbenchController that reach them.  URLs, names and paths are         *)
(* sequences of one-character strings, so that the string functions of     *)
(* the code are computed the way the code computes them.                   *)
(***************************************************************************)

\* strings.HasPrefix, strings.HasSuffix, strings.TrimSuffix, strings.Contains
HasPrefix(s, pre) == Len(s) >= Len(pre) /\ SubSeq(s, 1, Len(pre)) = pre
HasSuffix(s, suf) == Len(s) >= Len(suf) /\ SubSeq(s, Len(s) - Len(suf) + 1, Len(s)) = suf
TrimSuffix(s, suf) == IF HasSuffix(s, suf) THEN SubSeq(s, 1, Len(s) - Len(suf)) ELSE s
Contains(s, sub) == \E i \in 1..(Len(s) + 1) : HasPrefix(SubSeq(s, i, Len(s)), sub)

\* strings.TrimSpace
RECURSIVE TrimLeft(_)
TrimLeft(s) == IF s # <<>> /\ Head(s) = " " THEN TrimLeft(Tail(s)) ELSE s
RECURSIVE TrimRight(_)
TrimRight(s) == IF s # <<>> /\ s[Len(s)] = " " THEN TrimRight(SubSeq(s, 1, Len(s) - 1)) ELSE s
TrimSpaceSeq(s) == TrimRight(TrimLeft(s))

\* strings.Split(s, sep) for a one-character separator: the pieces between
\* the separators, empty pieces included.
RECURSIVE Split(_, _)
Split(s, sep) ==
    IF \A i \in 1..Len(s) : s[i] # sep
    THEN <<s>>
    ELSE LET i == CHOOSE j \in 1..Len(s) : s[j] = sep /\ \A k \in 1..(j - 1) : s[k] # sep
         IN  <<SubSeq(s, 1, i - 1)>> \o Split(SubSeq(s, i + 1, Len(s)), sep)

\* LOWER() of the database, letter by letter.
LowerChar(c) ==
    CASE c = "A" -> "a"
      [] c = "B" -> "b"
      [] c = "C" -> "c"
      [] c = "D" -> "d"
      [] c = "E" -> "e"
      [] c = "F" -> "f"
      [] c = "G" -> "g"
      [] c = "H" -> "h"
      [] c = "I" -> "i"
      [] c = "J" -> "j"
      [] c = "K" -> "k"
      [] c = "L" -> "l"
      [] c = "M" -> "m"
      [] c = "N" -> "n"
      [] c = "O" -> "o"
      [] c = "P" -> "p"
      [] c = "Q" -> "q"
      [] c = "R" -> "r"
      [] c = "S" -> "s"
      [] c = "T" -> "t"
      [] c = "U" -> "u"
      [] c = "V" -> "v"
      [] c = "W" -> "w"
      [] c = "X" -> "x"
      [] c = "Y" -> "y"
      [] c = "Z" -> "z"
      [] OTHER -> c
Lower(s) == [i \in 1..Len(s) |-> LowerChar(s[i])]

\* The last element of strings.Split(s, "/") when it is not empty, else "".
LastPart(parts) == IF Len(parts) > 0 /\ parts[Len(parts)] # <<>> THEN parts[Len(parts)] ELSE <<>>

\* A parseRepoName that strips ".git" before the trailing slash.
parseRepoNameGitFirst(url) ==
    IF url = <<>>
    THEN <<>>
    ELSE LET u == TrimSuffix(TrimSuffix(TrimSpaceSeq(url), <<".", "g", "i", "t">>), <<"/">>)
         IN  IF HasPrefix(u, <<"g", "i", "t", "@">>)
             THEN IF Len(Split(u, ":")) > 1 THEN LastPart(Split(Split(u, ":")[2], "/")) ELSE <<>>
             ELSE LastPart(Split(u, "/"))

\* parseRepoName
parseRepoName(url) ==
    IF url = <<>>
    THEN <<>>
    ELSE LET u == TrimSuffix(TrimSuffix(TrimSpaceSeq(url), <<"/">>), <<".", "g", "i", "t">>)
         IN  IF HasPrefix(u, <<"g", "i", "t", "@">>)
             THEN IF Len(Split(u, ":")) > 1 THEN LastPart(Split(Split(u, ":")[2], "/")) ELSE <<>>
             ELSE LastPart(Split(u, "/"))

\* filepath.Join("/home/coder/repos", name) for a name without separators
\* or dot segments, which are the names that occur here.
ReposDir == <<"/", "h", "o", "m", "e", "/", "c", "o", "d", "e", "r", "/", "r", "e", "p", "o", "s">>
TargetDir(name) == ReposDir \o <<"/">> \o name

\* The url and name form values posted to /repos/clone, and the {name} path
\* values of /repos/pull/{name} and /repos/delete/{name}.
CloneURLs ==
    { <<>>,
      <<" ", "h", "t", "t", "p", "s", ":", "/", "/", "h", ".", "i", "o", "/", "u", "/", "r", "e", "p", "o", ".", "g", "i", "t", "/">>,
      <<"g", "i", "t", "@", "h", ".", "i", "o", ":", "u", "/", "R", "e", "p", "o", ".", "g", "i", "t">>,
      <<"h", "t", "t", "p", "s", ":", "/", "/">> }
GivenNames == { <<>>, <<"r", "e", "p", "o">> }
\* The forms posted to /repos/clone: a url alone, or the SSH url with a name.
CloneForms ==
    { f \in [url : CloneURLs, name : GivenNames] : f.name = <<>> \/ Contains(f.url, <<"g", "i", "t", "@">>) }
PathNames == { <<"r", "e", "p", "o">>, <<"R", "e", "p", "o">>, <<"l", "i", "b">> }


\* How many repository requests are followed.
MaxRepoRequests == 2

\* The cookies the repository requests carry: none, or the session of a user.
RepoCookies == {NoCookie} \cup {Token(u, FALSE) : u \in issued}

\* The routes of the repository operations.
Routes == {"clone", "pull", "delete"}

\* WorkbenchController.Setup with the delete route left open.
AccessCheckOpenDelete(route) == IF route = "delete" THEN "Optional" ELSE "Required"

\* WorkbenchController.Setup: the access check each route is registered with.
AccessCheck(route) == "Required"

\* AuthController.Optional
Optional(us, cookie) == [ok |-> TRUE, render |-> "none"]

\* app.ProtectFunc(handler, check): the check runs first, and the handler
\* runs only if the check answers true.
ProtectFunc(check, us, cookie) ==
    IF check = "Optional" THEN Optional(us, cookie) ELSE Required(us, cookie)

\* What a git command prints, as the set of the phrases that the classifier
\* looks for and that the output contains.
CloneOutputs ==
    { {}, {"Permission denied"}, {"Could not read from remote"}, {"not found"},
      {"Could not resolve"}, {"Permission denied", "not found", "unable to access"} }

\* A classification that looks for "not found" before the permission failure.
ClassifyCloneErrorNotFoundFirst(output) ==
    IF "does not exist" \in output \/ "not found" \in output
    THEN "RepositoryNotFound"
    ELSE IF "Permission denied" \in output \/ "Could not read from remote" \in output
    THEN "AuthenticationFailed"
    ELSE IF "Could not resolve" \in output \/ "unable to access" \in output
    THEN "NetworkError"
    ELSE "CloneFailed"

\* The error CloneRepository returns for a failed git clone.
ClassifyCloneError(output) ==
    IF "Permission denied" \in output \/ "Could not read from remote" \in output
    THEN "AuthenticationFailed"
    ELSE IF "does not exist" \in output \/ "not found" \in output
    THEN "RepositoryNotFound"
    ELSE IF "Could not resolve" \in output \/ "unable to access" \in output
    THEN "NetworkError"
    ELSE "CloneFailed"

\* A lookup that compares names exactly.
FindByNameFoldExact(rs, name) ==
    IF \E i \in 1..Len(rs) : rs[i].name = name
    THEN rs[CHOOSE i \in 1..Len(rs) : rs[i].name = name /\ \A j \in 1..(i - 1) : rs[j].name # name]
    ELSE NoRepo

\* models.Repositories.Find("WHERE LOWER(Name) = LOWER(?)", name): the first
\* matching record, or none.
FindByNameFold(rs, name) ==
    IF \E i \in 1..Len(rs) : Lower(rs[i].name) = Lower(name)
    THEN rs[CHOOSE i \in 1..Len(rs) : /\ Lower(rs[i].name) = Lower(name)
                                      /\ \A j \in 1..(i - 1) : Lower(rs[j].name) # Lower(name)]
    ELSE NoRepo

\* A lookup by name that ignores case.
FindByNameAnyCase(rs, name) ==
    IF \E i \in 1..Len(rs) : Lower(rs[i].name) = Lower(name)
    THEN rs[CHOOSE i \in 1..Len(rs) : Lower(rs[i].name) = Lower(name)]
    ELSE NoRepo

\* models.Repositories.Find("WHERE Name = ?", name)
FindByName(rs, name) ==
    IF \E i \in 1..Len(rs) : rs[i].name = name
    THEN rs[CHOOSE i \in 1..Len(rs) : rs[i].name = name /\ \A j \in 1..(i - 1) : rs[j].name # name]
    ELSE NoRepo

\* A delete that leaves the record in the table.
DeleteRecordKeeps(rs, rec) == rs

\* models.Repositories.Delete(repo): the record with the id of repo goes.
RECURSIVE DeleteRecord(_, _)
DeleteRecord(rs, rec) ==
    IF rs = <<>> THEN <<>>
    ELSE IF Head(rs) = rec THEN Tail(rs)
    ELSE <<Head(rs)>> \o DeleteRecord(Tail(rs), rec)

\* The git clone goes on to the insert whatever the command returned.
AfterGitCloneAlways(err, output) == [pc |-> "insert", result |-> "none"]

\* CloneRepository after the git clone command: an error is classified and
\* returned, and only a success goes on to the insert.
AfterGitClone(err, output) ==
    IF err THEN [pc |-> "done", result |-> ClassifyCloneError(output)]
    ELSE [pc |-> "insert", result |-> "none"]

\* An activity entry written in the name of the user.
RepoActivityByUser(type, name, verb) ==
    [type |-> type, repository |-> name, description |-> <<verb, name>>, author |-> "ann"]

\* models.Activity as LogRepoActivity and CloneRepository fill it.
RepoActivity(type, name, verb) ==
    [type |-> type, repository |-> name, description |-> <<verb, name>>, author |-> "System"]

\* The state after the one user has signed up, and the empty installation.
SignedUpUser ==
    [id |-> 1, name |-> "Ann", handle |-> "ann", email |-> "ann@x.io",
     password |-> "correct-horse", admin |-> TRUE]

\* The limiter before any call.
LimiterFresh ==
    /\ now = 0
    /\ attempts = << >>
    /\ mu = "free"
    /\ rlpc = [c \in Callers |-> "idle"]
    /\ rlkey = [c \in Callers |-> "none"]
    /\ accepted = [k \in Keys |-> <<>>]
    /\ lastCall = NoCall
    /\ rej = [k \in Keys |-> NoRej]
    /\ plain = attempts

\* The installation after the signup of its user, with no repository yet.
SignedUpState ==
    /\ users = {SignedUpUser}
    /\ sessions = <<[uid |-> 1]>>
    /\ activities = <<Activity("user_signup", "Ann", "User created account")>>
    /\ issued = {1}
    /\ req = [r \in Reqs |-> IdleReq]
    /\ started = 0
    /\ signedUp = TRUE
    /\ repos = <<>>
    /\ dirs = {}
    /\ coderUp = TRUE
    /\ pending = <<>>
    /\ hist = <<>>
    /\ parse = NoParse
    /\ classify = NoClassify

InitRepo == LimiterFresh /\ (AuthEmpty \/ SignedUpState)

\* The directory test finds nothing.
DirTestBlind(up, ds, path) == ""

\* CoderExec("test -d <path> && echo exists"), its error ignored: what it
\* prints, which is nothing when the container is not running.
DirTest(up, ds, path) == IF up /\ path \in ds THEN "exists" ELSE ""

\* DeleteRepository goes on to delete the record whatever rm returned.
AfterRmIgnoresError(err) == [pc |-> "record", result |-> "none"]

\* DeleteRepository after "rm -rf": an error is returned, and only a success
\* goes on to delete the record.
AfterRm(err) ==
    IF err THEN [pc |-> "done", result |-> "DeleteFailed"]
    ELSE [pc |-> "record", result |-> "none"]

\* DeleteRepository deletes the record first.
DeleteFirstStepRecord == "record"

\* DeleteRepository: the step that follows the lookup is the filesystem removal.
DeleteFirstStep == "rm"

\* What the repository steps never change: the accounts, the limiter and
\* the history of the lifecycle scenario.
acctvars == <<users, sessions, issued, signedUp, now, attempts, rlhist, hist, parse, classify>>

\* Request r issues a command through services.CoderExec.
Exec(r, cmd) == req[r].execs \cup {cmd}

\* POST /repos/clone, /repos/pull/{name} or /repos/delete/{name} arrives.
StartRepo(r, route, cookie, url, name) ==
    /\ req[r].pc = "idle"
    /\ started < MaxRepoRequests
    /\ started' = started + 1
    /\ req' = [req EXCEPT ![r] = [NewReq(route, "gate", "10.0.0.1:51234", NoForm, cookie)
                                    EXCEPT !.url = url, !.name = name]]
    /\ UNCHANGED <<acctvars, activities, repovars>>

\* The access check of the route runs before the handler.
RepoGate(r) ==
    /\ req[r].kind \in Routes
    /\ req[r].pc = "gate"
    /\ LET check == AccessCheck(req[r].kind)
           g == ProtectFunc(check, users, req[r].cookie)
       IN  req' = [req EXCEPT ![r].pc = IF ~g.ok THEN "done"
                                        ELSE IF req[r].kind = "clone" THEN "running" ELSE "find",
                              ![r].result = IF g.ok THEN "none" ELSE g.render,
                              ![r].passed = (check = "Required" /\ g.ok),
                              ![r].sawUsers = Cardinality(users)]
    /\ UNCHANGED <<acctvars, activities, started, repovars>>

\* cloneRepo: the form values and the container are checked.
CloneRunning(r) ==
    /\ req[r].kind = "clone"
    /\ req[r].pc = "running"
    /\ IF req[r].url = <<>> THEN Done(r, "URLRequired")
       ELSE IF ~coderUp THEN Done(r, "CoderNotRunning")
       ELSE req' = [req EXCEPT ![r].pc = "find"]
    /\ UNCHANGED <<acctvars, activities, started, repovars>>

\* CloneRepository: the name is derived and validated, and looked up.
CloneFind(r) ==
    /\ req[r].kind = "clone"
    /\ req[r].pc = "find"
    /\ LET name == IF req[r].name = <<>> THEN parseRepoName(req[r].url) ELSE req[r].name
           existing == FindByNameFold(repos, name)
           dup == \E i \in 1..Len(repos) : Lower(repos[i].name) = Lower(name)
       IN  IF name = <<>>
           THEN req' = [req EXCEPT ![r].pc = "done", ![r].result = "ValidationError"]
           ELSE IF existing.name # <<>>
           THEN req' = [req EXCEPT ![r].pc = "done", ![r].result = "DuplicateName",
                                   ![r].name = name, ![r].found = existing,
                                   ![r].dupAtFind = dup]
           ELSE req' = [req EXCEPT ![r].pc = "mkdir", ![r].name = name, ![r].dupAtFind = dup]
    /\ UNCHANGED <<acctvars, activities, started, repovars>>

\* CoderExec("mkdir -p /home/coder/repos"); its result is ignored.
CloneMkdir(r) ==
    /\ req[r].kind = "clone"
    /\ req[r].pc = "mkdir"
    /\ dirs' = IF coderUp THEN dirs \cup {ReposDir} ELSE dirs
    /\ req' = [req EXCEPT ![r].pc = "test", ![r].execs = Exec(r, "mkdir")]
    /\ UNCHANGED <<acctvars, activities, started, repos, coderUp, pending>>

\* CoderExec("test -d <target> && echo exists")
CloneTest(r) ==
    /\ req[r].kind = "clone"
    /\ req[r].pc = "test"
    /\ LET target == TargetDir(req[r].name)
           q == [req EXCEPT ![r].execs = Exec(r, "test"),
                            ![r].testDir = (target \in dirs), ![r].testUp = coderUp]
       IN  IF DirTest(coderUp, dirs, target) = "exists"
           THEN req' = [q EXCEPT ![r].pc = "done", ![r].result = "TargetExists"]
           ELSE req' = [q EXCEPT ![r].pc = "clone"]
    /\ UNCHANGED <<acctvars, activities, started, repovars>>

\* CoderExec("git clone <url> <target> 2>&1"): it fails when the container is
\* down or the target exists, and else succeeds or fails as the remote decides.
CloneGit(r) ==
    /\ req[r].kind = "clone"
    /\ req[r].pc = "clone"
    /\ \E ok \in BOOLEAN, output \in CloneOutputs :
          LET target == TargetDir(req[r].name)
              err == ~coderUp \/ target \in dirs \/ ~ok
              out == IF ~coderUp \/ target \in dirs THEN {} ELSE output
              next == AfterGitClone(err, out)
          IN  /\ ok => output = {}
              /\ dirs' = IF err THEN dirs ELSE dirs \cup {ReposDir, target}
              /\ req' = [req EXCEPT ![r].pc = next.pc, ![r].result = next.result,
                                    ![r].execs = Exec(r, "clone"), ![r].cloned = ~err]
    /\ UNCHANGED <<acctvars, activities, started, repos, coderUp, pending>>

\* A clone that removes what it cloned when the record cannot be saved.
OnSaveFailedRollsBack(ds, target) == ds \ {target}

\* The directories after models.Repositories.Insert has failed: as before,
\* CloneRepository returns the error and leaves the clone where it is.
OnSaveFailed(ds, target) == ds

\* models.Repositories.Insert, then "go models.Activities.Insert(repo_clone)".
CloneInsert(r) ==
    /\ req[r].kind = "clone"
    /\ req[r].pc = "insert"
    /\ \E dbOK \in BOOLEAN :
          IF dbOK
          THEN /\ repos' = Append(repos, [name |-> req[r].name, url |-> req[r].url,
                                          path |-> TargetDir(req[r].name),
                                          private |-> Contains(req[r].url, <<"g", "i", "t", "@">>)])
               /\ pending' = Append(pending,
                                    RepoActivity("repo_clone", req[r].name, "Cloned repository %s"))
               /\ req' = [req EXCEPT ![r].pc = "done", ![r].result = "ok", ![r].wrote = TRUE,
                                     ![r].queued = RepoActivity("repo_clone", req[r].name,
                                                                "Cloned repository %s")]
               /\ dirs' = dirs
          ELSE /\ Done(r, "SaveFailed")
               /\ dirs' = OnSaveFailed(dirs, TargetDir(req[r].name))
               /\ UNCHANGED <<repos, pending>>
    /\ UNCHANGED <<acctvars, activities, started, coderUp>>


\* What git pull prints when it fails, as for CloneOutputs.
PullOutputs ==
    { {}, {"Permission denied"}, {"Merge conflict"}, {"Your local changes"},
      {"Permission denied", "merge conflict"} }

\* The error PullRepository returns for a failed git pull.
ClassifyPullError(output) ==
    IF "Permission denied" \in output
    THEN "AuthenticationFailed"
    ELSE IF "merge conflict" \in output \/ "Merge conflict" \in output
    THEN "MergeConflict"
    ELSE IF "uncommitted changes" \in output \/ "Your local changes" \in output
    THEN "UncommittedChanges"
    ELSE "PullFailed"

\* The activity types PullRepository logs: after a git pull, and after a re-clone.
SyncedType == "repo_pull"
ReclonedType == "repo_pull"

\* PullRepository and DeleteRepository: the record is looked up by its exact name.
RepoFind(r) ==
    /\ req[r].kind \in {"pull", "delete"}
    /\ req[r].pc = "find"
    /\ LET rec == FindByName(repos, req[r].name)
           miss == \A i \in 1..Len(repos) : repos[i].name # req[r].name
       IN  IF rec = NoRepo
           THEN req' = [req EXCEPT ![r].pc = "done", ![r].result = "NotFound",
                                   ![r].missAtFind = miss]
           ELSE req' = [req EXCEPT ![r].pc = IF req[r].kind = "pull" THEN "test"
                                             ELSE DeleteFirstStep,
                                   ![r].found = rec, ![r].missAtFind = miss]
    /\ UNCHANGED <<acctvars, activities, started, repovars>>

\* A pull that runs git pull whatever the directory test printed.
AfterPullTestPullsAnyway(printed) == "pull"

\* PullRepository after the directory test: git pull when the test printed
\* "exists", and the re-clone otherwise.
AfterPullTest(printed) == IF printed = "exists" THEN "pull" ELSE "mkdir"

\* CoderExec("test -d <path> && echo exists")
PullTest(r) ==
    /\ req[r].kind = "pull"
    /\ req[r].pc = "test"
    /\ req' = [req EXCEPT ![r].pc = AfterPullTest(DirTest(coderUp, dirs, req[r].found.path)),
                          ![r].execs = Exec(r, "test"),
                          ![r].testDir = (req[r].found.path \in dirs), ![r].testUp = coderUp]
    /\ UNCHANGED <<acctvars, activities, started, repovars>>

\* The directory is missing: CoderExec("mkdir -p /home/coder/repos").
PullMkdir(r) ==
    /\ req[r].kind = "pull"
    /\ req[r].pc = "mkdir"
    /\ dirs' = IF coderUp THEN dirs \cup {ReposDir} ELSE dirs
    /\ req' = [req EXCEPT ![r].pc = "reclone", ![r].execs = Exec(r, "mkdir")]
    /\ UNCHANGED <<acctvars, activities, started, repos, coderUp, pending>>

\* A pull that takes its record out of the table.
RecordsAfterPullDropped(rs, rec) == DeleteRecord(rs, rec)

\* models.Repositories after the git command of PullRepository: as before,
\* PullRepository calls neither Insert, Update nor Delete.
RecordsAfterPull(rs, rec) == rs

\* The directory is missing: CoderExec("git clone <url> <path> 2>&1").
PullReclone(r) ==
    /\ req[r].kind = "pull"
    /\ req[r].pc = "reclone"
    /\ \E ok \in BOOLEAN :
          LET path == req[r].found.path
              err == ~coderUp \/ path \in dirs \/ ~ok
          IN  IF err
              THEN /\ req' = [req EXCEPT ![r].pc = "done", ![r].result = "RecloneFailed",
                                         ![r].execs = Exec(r, "clone")]
                   /\ UNCHANGED <<dirs, pending>>
              ELSE /\ dirs' = dirs \cup {ReposDir, path}
                   /\ pending' = Append(pending, RepoActivity(ReclonedType, req[r].found.name,
                                                              "Re-cloned missing repository %s"))
                   /\ req' = [req EXCEPT ![r].pc = "done", ![r].result = "ok",
                                         ![r].execs = Exec(r, "clone"), ![r].cloned = TRUE,
                                         ![r].queued = RepoActivity(ReclonedType, req[r].found.name,
                                                                    "Re-cloned missing repository %s")]
    /\ repos' = RecordsAfterPull(repos, req[r].found)
    /\ UNCHANGED <<acctvars, activities, started, coderUp>>

\* CoderExec("cd <path> && git pull 2>&1")
PullGit(r) ==
    /\ req[r].kind = "pull"
    /\ req[r].pc = "pull"
    /\ \E ok \in BOOLEAN, output \in PullOutputs :
          LET err == ~coderUp \/ req[r].found.path \notin dirs \/ ~ok
              out == IF ~coderUp \/ req[r].found.path \notin dirs THEN {} ELSE output
          IN  /\ ok => output = {}
              /\ IF err
                 THEN /\ req' = [req EXCEPT ![r].pc = "done", ![r].result = ClassifyPullError(out),
                                            ![r].execs = Exec(r, "pull")]
                      /\ UNCHANGED pending
                 ELSE /\ pending' = Append(pending, RepoActivity(SyncedType, req[r].name,
                                                                 "Synced repository %s"))
                      /\ req' = [req EXCEPT ![r].pc = "done", ![r].result = "ok",
                                            ![r].execs = Exec(r, "pull"),
                                            ![r].queued = RepoActivity(SyncedType, req[r].name,
                                                                       "Synced repository %s")]
    /\ repos' = RecordsAfterPull(repos, req[r].found)
    /\ UNCHANGED <<acctvars, activities, started, dirs, coderUp>>

\* An rm that fails when there is nothing to remove.
RmErrorOnMissing(up, there, ok) == ~up \/ ~there \/ ~ok

\* Whether CoderExec("rm -rf <path>") returns an error: when the container is
\* not running or the command fails; with -f a missing path is no failure.
RmError(up, there, ok) == ~up \/ ~ok

\* CoderExec("rm -rf <path>")
DeleteRm(r) ==
    /\ req[r].kind = "delete"
    /\ req[r].pc = "rm"
    /\ \E ok \in BOOLEAN :
          LET err == RmError(coderUp, req[r].found.path \in dirs, ok)
              next == AfterRm(err)
          IN  /\ dirs' = IF err THEN dirs ELSE dirs \ {req[r].found.path}
              /\ req' = [req EXCEPT ![r].pc = next.pc, ![r].result = next.result,
                                    ![r].execs = Exec(r, "rm"),
                                    ![r].rmFailed = err, ![r].removed = ~err]
    /\ UNCHANGED <<acctvars, activities, started, repos, coderUp, pending>>

\* models.Repositories.Delete, then "go models.Activities.Insert(repo_delete)".
DeleteRow(r) ==
    /\ req[r].kind = "delete"
    /\ req[r].pc = "record"
    /\ \E dbOK \in BOOLEAN :
          IF dbOK
          THEN /\ repos' = DeleteRecord(repos, req[r].found)
               /\ pending' = Append(pending,
                                    RepoActivity("repo_delete", req[r].name, "Deleted repository %s"))
               /\ req' = [req EXCEPT ![r].pc = "done", ![r].result = "ok", ![r].wrote = TRUE,
                                     ![r].queued = RepoActivity("repo_delete", req[r].name,
                                                                "Deleted repository %s")]
          ELSE /\ Done(r, "DeleteRecordFailed")
               /\ UNCHANGED <<repos, pending>>
    /\ UNCHANGED <<acctvars, activities, started, dirs, coderUp>>

\* A goroutine started by "go models.Activities.Insert" runs.
ActivityInsert(i) ==
    /\ i \in 1..Len(pending)
    /\ activities' = Append(activities, pending[i])
    /\ pending' = SubSeq(pending, 1, i - 1) \o SubSeq(pending, i + 1, Len(pending))
    /\ UNCHANGED <<acctvars, req, started, repos, dirs, coderUp>>

\* A failed activity insert is reported to the requests that returned no error.
OnLogFailureReported(q) ==
    [r \in DOMAIN q |-> IF q[r].pc = "done" /\ q[r].result = "ok"
                        THEN [q[r] EXCEPT !.result = "LogFailed"] ELSE q[r]]

\* What a failed activity insert does to the requests: nothing, the
\* goroutine discards what models.Activities.Insert returns.
OnLogFailure(q) == q

\* A goroutine started by "go models.Activities.Insert" runs, and the insert fails.
ActivityInsertFails(i) ==
    /\ i \in 1..Len(pending)
    /\ pending' = SubSeq(pending, 1, i - 1) \o SubSeq(pending, i + 1, Len(pending))
    /\ req' = OnLogFailure(req)
    /\ UNCHANGED <<acctvars, activities, started, repos, dirs, coderUp>>

\* The container is rebuilt on a fresh volume: the cloned directories are gone.
VolumeRebuilt ==
    /\ dirs # {}
    /\ dirs' = {}
    /\ UNCHANGED <<acctvars, activities, req, started, repos, coderUp, pending>>

\* The coder container stops, and is started again.
CoderStop ==
    /\ coderUp
    /\ coderUp' = FALSE
    /\ UNCHANGED <<acctvars, activities, req, started, repos, dirs, pending>>

CoderStart ==
    /\ ~coderUp
    /\ coderUp' = TRUE
    /\ UNCHANGED <<acctvars, activities, req, started, repos, dirs, pending>>

NextRepo ==
    \/ \E r \in Reqs, c \in RepoCookies, f \in CloneForms : StartRepo(r, "clone", c, f.url, f.name)
    \/ \E r \in Reqs, c \in RepoCookies, n \in PathNames : StartRepo(r, "pull", c, <<>>, n)
    \/ \E r \in Reqs, c \in RepoCookies, n \in PathNames : StartRepo(r, "delete", c, <<>>, n)
    \/ \E r \in Reqs : RepoGate(r)
    \/ \E r \in Reqs : CloneRunning(r)
    \/ \E r \in Reqs : CloneFind(r)
    \/ \E r \in Reqs : CloneMkdir(r)
    \/ \E r \in Reqs : CloneTest(r)
    \/ \E r \in Reqs : CloneGit(r)
    \/ \E r \in Reqs : CloneInsert(r)
    \/ \E r \in Reqs : RepoFind(r)
    \/ \E r \in Reqs : PullTest(r)
    \/ \E r \in Reqs : PullMkdir(r)
    \/ \E r \in Reqs : PullReclone(r)
    \/ \E r \in Reqs : PullGit(r)
    \/ \E r \in Reqs : DeleteRm(r)
    \/ \E r \in Reqs : DeleteRow(r)
    \/ \E i \in 1..MaxRepoRequests : ActivityInsert(i)
    \/ \E i \in 1..MaxRepoRequests : ActivityInsertFails(i)
    \/ VolumeRebuilt
    \/ CoderStop
    \/ CoderStart
    \/ \E r \in Reqs : Respond(r)

SpecRepo == InitRepo /\ [][NextRepo]_vars


(***************************************************************************)
(* The repository claims.                                                  *)
(***************************************************************************)

\* Request r is inside its clone, pull or delete handler, or has been.
InHandler(r) ==
    /\ req[r].kind \in Routes
    /\ req[r].pc \notin {"idle", "gate"}
    /\ ~(req[r].pc = "done" /\ req[r].result \in {"signup.html", "signin.html"})

\* C7: every repository operation is gated.  A clone, pull or delete
\* handler runs for a request, and a container exec or a repository-record
\* write is made for it, only after Required returned true for that same
\* request, which it does only for a valid session of an existing user.
C7_RepoRoutesGated ==
    \A r \in Reqs :
        /\ InHandler(r) => req[r].passed
        /\ (req[r].kind \in Routes /\ (req[r].execs # {} \/ req[r].wrote)) => req[r].passed
        /\ (req[r].kind \in Routes /\ req[r].passed) => (req[r].sawUsers > 0 /\ ValidSession(r))

\* One request without a session was answered with the signin form and did
\* nothing, while a request with a session cloned and recorded a repository.
C7_Witness ==
    \E r1, r2 \in Reqs :
        /\ req[r1].kind \in Routes /\ req[r1].pc = "done" /\ req[r1].result = "signin.html"
        /\ req[r1].execs = {} /\ ~req[r1].wrote
        /\ req[r2].kind = "clone" /\ req[r2].passed /\ req[r2].wrote /\ req[r2].execs # {}

\* C8: a clone whose name, given or derived, equals the name of an existing
\* repository record ignoring case fails with DuplicateName, and it makes
\* no container exec and no database write; a clone fails so only then.
C8_DuplicateNameNoEffect ==
    \A r \in Reqs :
        (req[r].kind = "clone" /\ req[r].pc \notin {"idle", "gate", "running", "find"}) =>
            /\ req[r].dupAtFind =>
                  /\ req[r].pc = "done" /\ req[r].result = "DuplicateName"
                  /\ req[r].execs = {} /\ ~req[r].wrote
            /\ req[r].result = "DuplicateName" => req[r].dupAtFind

\* A clone was refused as a duplicate of a record whose name differs from
\* the requested one in case only.
C8_Witness ==
    \E r \in Reqs :
        /\ req[r].kind = "clone" /\ req[r].pc = "done" /\ req[r].result = "DuplicateName"
        /\ req[r].found.name # req[r].name
        /\ Lower(req[r].found.name) = Lower(req[r].name)
        /\ req[r].execs = {} /\ ~req[r].wrote
        /\ \E i \in 1..Len(repos) : repos[i] = req[r].found

\* C9: repository names are unique.  In every reachable state no two
\* repository records have names that are equal ignoring case, and no
\* record has an empty name.
C9_UniqueNames ==
    /\ \A i, j \in 1..Len(repos) : i # j => Lower(repos[i].name) # Lower(repos[j].name)
    /\ \A i \in 1..Len(repos) : repos[i].name # <<>>

\* C10: a repository record is created only after the git clone in the
\* container succeeded.  A clone that returns an error (validation,
\* DuplicateName, TargetExists, a classified or generic clone failure) made
\* no record, and a clone reaches the insert, and makes its record, only
\* when its git clone had succeeded.
C10_InsertOnlyAfterClone ==
    \A r \in Reqs :
        req[r].kind = "clone" =>
            /\ (req[r].pc = "done" /\ req[r].result # "ok") => ~req[r].wrote
            /\ req[r].pc = "insert" => req[r].cloned
            /\ req[r].wrote => (req[r].cloned /\ req[r].result = "ok")

\* One clone failed in git clone with a classified error and left the
\* records as they were, while another had succeeded and made the one record.
C10_Witness ==
    \E r1, r2 \in Reqs :
        /\ req[r1].kind = "clone" /\ req[r1].pc = "done"
        /\ req[r1].result = "AuthenticationFailed"
        /\ "clone" \in req[r1].execs /\ ~req[r1].wrote
        /\ req[r2].kind = "clone" /\ req[r2].wrote /\ req[r2].cloned
        /\ Len(repos) = 1


\* Clone request r has run its directory test.
PastTest(r) ==
    /\ req[r].kind = "clone"
    /\ "test" \in req[r].execs

Recloned(r) ==
    /\ req[r].kind = "pull"
    /\ req[r].pc = "done"
    /\ req[r].found # NoRepo
    /\ req[r].cloned

\* C12: self-healing pull.  A pull whose record exists and whose directory
\* is missing re-clones from the stored URL into the stored LocalPath,
\* returns no error, and hands over an activity entry whose type differs
\* from the type of the entry of a normal successful pull.
C12_SelfHealingPull ==
    \A r \in Reqs :
        Recloned(r) =>
            /\ req[r].result = "ok"
            /\ ~req[r].testDir \/ ~req[r].testUp
            /\ req[r].queued.repository = req[r].found.name
            /\ req[r].queued.type # SyncedType


\* Delete request r has failed at the filesystem removal and has touched
\* neither the records nor the activity log.
FailedAtRm(q, r) ==
    /\ q[r].pc = "done" /\ q[r].result = "DeleteFailed"
    /\ ~q[r].wrote /\ q[r].queued = NoActivity

\* C13: a delete whose filesystem-removal exec fails returns DeleteFailed,
\* deletes no record and hands over no repo_delete activity entry: the
\* failing step leaves the records, the directories and the activity log
\* as they were, so the record stays findable with its fields unchanged.
C13_DeleteFailedKeepsRecord ==
    [][ \A r \in Reqs :
           /\ (req'[r].kind = "delete" /\ req'[r].rmFailed) => FailedAtRm(req', r)
           /\ (req'[r].kind = "delete" /\ req'[r].result = "DeleteFailed") => req'[r].rmFailed
           /\ (req[r].kind = "delete" /\ req[r].pc = "rm" /\ req'[r].rmFailed) =>
                 /\ repos' = repos /\ dirs' = dirs
                 /\ pending' = pending /\ activities' = activities
                 /\ FindByName(repos', req[r].name) = FindByName(repos, req[r].name)
      ]_vars

\* The removal failed in the running container: the delete returned
\* DeleteFailed, and the record it had found is still found under its name,
\* its directory still there.
C13_Witness ==
    \E r \in Reqs :
        /\ req[r].kind = "delete" /\ req[r].rmFailed /\ FailedAtRm(req, r)
        /\ coderUp
        /\ FindByName(repos, req[r].name) = req[r].found
        /\ req[r].found.path \in dirs
        /\ \A i \in 1..Len(pending) : pending[i].type # "repo_delete"
        /\ \A i \in 1..Len(activities) : activities[i].type # "repo_delete"


\* C14: delete ordering.  A delete removes the directory first and the
\* record afterwards: its filesystem step leaves the records as they are,
\* it reaches the record deletion only with the removal done, and the step
\* that deletes the record comes from there.  So a delete stopped between
\* its steps leaves the record with the directory or the record without the
\* directory, and never a record deleted before the directory was removed.
C14_DeleteOrdering ==
    [][ \A r \in Reqs :
           req'[r].kind = "delete" =>
               /\ req'[r].pc = "record" => (req'[r].removed /\ ~req'[r].rmFailed)
               /\ req'[r].wrote => (req'[r].removed /\ ~req'[r].rmFailed)
               /\ (req[r].pc = "rm" /\ req'[r].removed) =>
                     (req[r].found.path \notin dirs' /\ repos' = repos)
               /\ (req[r].kind = "delete" /\ ~req[r].wrote /\ req'[r].wrote) =>
                     (req[r].pc = "record" /\ req[r].removed /\ dirs' = dirs)
      ]_vars

\* A delete between its steps: the directory is removed, the record is
\* still there.
C14_Witness ==
    \E r \in Reqs :
        /\ req[r].kind = "delete" /\ req[r].pc = "record"
        /\ req[r].removed /\ ~req[r].wrote
        /\ req[r].found.path \notin dirs
        /\ FindByName(repos, req[r].name) = req[r].found


(***************************************************************************)
(* The lifecycle scenario: one client calls clone, clone, delete and clone *)
(* for the same repository, each call after the one before has returned.   *)
(***************************************************************************)

WidgetsURL == <<"h", "t", "t", "p", "s", ":", "/", "/", "g", "i", "t", "h", "u", "b", ".", "c", "o", "m", "/", "a", "c", "m", "e", "/", "w", "i", "d", "g", "e", "t", "s", ".", "g", "i", "t">>
Widgets == <<"w", "i", "d", "g", "e", "t", "s">>

\* The calls of the scenario, in order.
Script ==
    << [kind |-> "clone", url |-> WidgetsURL, name |-> <<>>],
       [kind |-> "clone", url |-> WidgetsURL, name |-> <<>>],
       [kind |-> "delete", url |-> <<>>, name |-> Widgets],
       [kind |-> "clone", url |-> WidgetsURL, name |-> <<>>] >>

\* The next call of the scenario is made, with the session of the user.
StartLife ==
    /\ req["r1"].pc = "idle"
    /\ started = Len(hist)
    /\ started < Len(Script)
    /\ started' = started + 1
    /\ LET call == Script[started + 1]
       IN  req' = [req EXCEPT !["r1"] =
                      [NewReq(call.kind, "gate", "10.0.0.1:51234", NoForm, Token(1, FALSE))
                          EXCEPT !.url = call.url, !.name = call.name]]
    /\ UNCHANGED <<users, sessions, issued, signedUp, now, attempts, rlhist,
                   activities, repos, dirs, coderUp, pending, hist, parse, classify>>

\* The call has returned: what it returned, and the record that is found
\* under its name now.
FinishLife ==
    /\ req["r1"].pc = "done"
    /\ hist' = Append(hist, [result |-> req["r1"].result,
                             rec |-> FindByName(repos, req["r1"].name),
                             cloned |-> req["r1"].cloned, wrote |-> req["r1"].wrote])
    /\ req' = [req EXCEPT !["r1"] = IdleReq]
    /\ UNCHANGED <<users, sessions, issued, signedUp, now, attempts, rlhist,
                   activities, started, repos, dirs, coderUp, pending, parse, classify>>

InitLife == LimiterFresh /\ SignedUpState

NextLife ==
    \/ StartLife
    \/ RepoGate("r1")
    \/ CloneRunning("r1")
    \/ CloneFind("r1")
    \/ CloneMkdir("r1")
    \/ CloneTest("r1")
    \/ CloneGit("r1")
    \/ CloneInsert("r1")
    \/ RepoFind("r1")
    \/ DeleteRm("r1")
    \/ DeleteRow("r1")
    \/ \E i \in 1..Len(Script) : ActivityInsert(i)
    \/ FinishLife

SpecLife == InitLife /\ [][NextLife]_vars


\* The record the first clone of the scenario is to create.
WidgetsRecord ==
    [name |-> Widgets, url |-> WidgetsURL, path |-> ReposDir \o <<"/">> \o Widgets,
     private |-> FALSE]

\* The results with which a clone is refused before it runs git clone.
Refusals == {"signup.html", "signin.html", "URLRequired", "CoderNotRunning",
             "ValidationError", "DuplicateName", "TargetExists"}

\* C15: the lifecycle.  From the empty state the clone of
\* "https://github.com/acme/widgets.git" with no name, when it succeeds,
\* creates the record named "widgets" with IsPrivate false and LocalPath
\* base directory + "/widgets"; the same clone repeated fails with
\* DuplicateName; and after Delete("widgets") has succeeded the same clone
\* is not refused: it runs git clone and succeeds when git clone and the
\* insert do, creating the same record again.
C15_Lifecycle ==
    /\ (Len(hist) >= 1 /\ hist[1].result = "ok") =>
          (hist[1].rec = WidgetsRecord /\ hist[1].cloned /\ hist[1].wrote)
    /\ (Len(hist) >= 2 /\ hist[1].result = "ok") =>
          (hist[2].result = "DuplicateName" /\ hist[2].rec = WidgetsRecord /\ ~hist[2].wrote)
    /\ (Len(hist) >= 3 /\ hist[1].result = "ok" /\ hist[3].result = "ok") =>
          hist[3].rec = NoRepo
    /\ (Len(hist) >= 4 /\ hist[1].result = "ok" /\ hist[3].result = "ok") =>
          /\ hist[4].result \notin Refusals
          /\ hist[4].cloned => hist[4].result \in {"ok", "SaveFailed"}
          /\ hist[4].result = "ok" => hist[4].rec = WidgetsRecord

\* The four calls have returned: created, refused as a duplicate, deleted,
\* created again.
C15_Witness ==
    /\ Len(hist) = 4
    /\ hist[1].result = "ok" /\ hist[2].result = "DuplicateName"
    /\ hist[3].result = "ok" /\ hist[4].result = "ok"
    /\ repos = <<WidgetsRecord>>
    /\ WidgetsRecord.path \in dirs


\* C16: a pull or a delete for a name that no repository record has fails
\* with NotFound, and it makes no container exec and no database write and
\* hands over no activity entry; and they fail with NotFound only so.
C16_NotFoundNoEffect ==
    \A r \in Reqs :
        (req[r].kind \in {"pull", "delete"} /\ req[r].pc \notin {"idle", "gate", "find"}
         /\ req[r].passed) =>
            /\ req[r].missAtFind =>
                  /\ req[r].pc = "done" /\ req[r].result = "NotFound"
                  /\ req[r].execs = {} /\ ~req[r].wrote /\ req[r].queued = NoActivity
            /\ req[r].result = "NotFound" => req[r].missAtFind

\* A pull and a delete were both refused with NotFound: nothing was
\* executed and nothing handed to the activity log.
C16_Witness ==
    \E r1, r2 \in Reqs :
        /\ req[r1].kind = "pull" /\ req[r1].result = "NotFound" /\ req[r1].missAtFind
        /\ req[r2].kind = "delete" /\ req[r2].result = "NotFound" /\ req[r2].missAtFind
        /\ req[r1].execs = {} /\ req[r2].execs = {}
        /\ pending = <<>>


\* The activity record a is neither waiting for its insert nor in the log.
Lost(a) ==
    /\ \A i \in 1..Len(pending) : pending[i] # a
    /\ \A i \in 1..Len(activities) : activities[i] # a

\* C17: activity logging is decoupled from the result of the operation.
\* A clone, pull or delete has its result, "ok", in the step that hands its
\* entry to the logging goroutine; and the step of that goroutine, whether
\* its insert succeeds or fails and however late it runs, changes nothing
\* of any request, no repository record and no directory.
C17_LoggingDecoupled ==
    [][ /\ \A r \in Reqs :
              (req'[r].kind \in Routes /\ req'[r].queued # NoActivity) =>
                  (req'[r].pc = "done" /\ req'[r].result = "ok")
        /\ Len(pending') < Len(pending) =>
              /\ req' = req
              /\ repos' = repos
              /\ dirs' = dirs
      ]_vars

\* The insert of the repo_clone entry failed: the entry is lost, the clone
\* had returned no error, and its record and its directory are there.
C17_Witness ==
    \E r \in Reqs :
        /\ req[r].kind = "clone" /\ req[r].pc = "done" /\ req[r].result = "ok"
        /\ req[r].queued.type = "repo_clone"
        /\ Lost(req[r].queued)
        /\ \E i \in 1..Len(repos) : repos[i].name = req[r].name
        /\ TargetDir(req[r].name) \in dirs


(***************************************************************************)
(* Further claims about signup, signin and signout.                        *)
(***************************************************************************)

\* The password length below which the spec has a signup refused.
MinPasswordLen == 8

\* A field of the signup form is blank.
BlankField(f) ==
    \/ TrimSpace(f.name) = ""
    \/ TrimSpace(ToLower(f.handle)) = ""
    \/ TrimSpace(ToLower(f.email)) = ""
    \/ f.password = ""

\* C18: signup validation.  A signup request with a blank name, handle,
\* email or password, or with a password shorter than 8 characters, is
\* refused: it creates no user and no session, sets no cookie and does not
\* reach the creation of the user; where the handler gets to the validation
\* the result is ValidationError.
C18_InvalidSignupCreatesNothing ==
    \A r \in Reqs :
        (req[r].kind = "signup"
         /\ (BlankField(req[r].form) \/ Len(req[r].form.password) < MinPasswordLen)) =>
            /\ ~req[r].madeUser /\ ~req[r].madeSession
            /\ req[r].setCookie = NoCookie
            /\ req[r].pc \in {"count", "rate", "done"}
            /\ req[r].pc = "done" =>
                  req[r].result \in {"AlreadyInitialized", "RateLimited", "ValidationError"}


\* C19: signin rate limiting.  A signin request that the limiter rejects
\* under the key of the client address and "signin" fails with RateLimited:
\* the credentials are not verified, no session is created and no cookie
\* set, even when the credentials are correct.
C19_RejectedSigninDoesNothing ==
    \A r \in Reqs :
        (req[r].kind = "signin" /\ req[r].limited) =>
            /\ req[r].pc \in {"ratelog", "done"}
            /\ req[r].result = "RateLimited"
            /\ req[r].uid = 0 /\ req[r].cause = "none"
            /\ ~req[r].madeSession
            /\ req[r].setCookie = NoCookie

\* The limiter rejected a signin that carried the handle and the password
\* of the user: the request ended with RateLimited, and the one session
\* there is stems from the signup.
C19_Witness ==
    \E r \in Reqs :
        /\ req[r].kind = "signin" /\ req[r].limited /\ req[r].pc = "done"
        /\ CollectionSignin(users, TrimSpace(ToLower(req[r].form.handle)),
                            req[r].form.password).uid # 0
        /\ req[r].result = "RateLimited" /\ req[r].setCookie = NoCookie
        /\ Len(sessions) = 1


\* C20: signout is idempotent.  It clears the cookie whether or not a
\* session is active and reports no error, and it appends an activity entry
\* of type auth_signout if and only if the request carried a valid session.
C20_SignoutIdempotent ==
    \A r \in Reqs :
        (req[r].kind = "signout" /\ req[r].pc = "done") =>
            /\ req[r].setCookie = Cleared
            /\ req[r].result = "ok"
            /\ req[r].logged = "auth_signout" <=> ValidSession(r)
            /\ req[r].logged = "none" <=> ~ValidSession(r)


(***************************************************************************)
(* parseRepoName as a function of its argument alone: it is called on the  *)
(* urls of its test and on a family of urls put together from a head, a    *)
(* path and a tail, bare or surrounded by blanks.                          *)
(***************************************************************************)

\* The inputs of TestParseRepoName.
TestURLs ==
    { <<"h", "t", "t", "p", "s", ":", "/", "/", "g", "i", "t", "h", "u", "b", ".", "c", "o", "m", "/", "u", "s", "e", "r", "/", "r", "e", "p", "o", ".", "g", "i", "t">>,
      <<"h", "t", "t", "p", "s", ":", "/", "/", "g", "i", "t", "h", "u", "b", ".", "c", "o", "m", "/", "u", "s", "e", "r", "/", "r", "e", "p", "o">>,
      <<"g", "i", "t", "@", "g", "i", "t", "h", "u", "b", ".", "c", "o", "m", ":", "u", "s", "e", "r", "/", "r", "e", "p", "o", ".", "g", "i", "t">>,
      <<"g", "i", "t", "@", "g", "i", "t", "h", "u", "b", ".", "c", "o", "m", ":", "u", "s", "e", "r", "/", "r", "e", "p", "o">>,
      <<"h", "t", "t", "p", "s", ":", "/", "/", "g", "i", "t", "l", "a", "b", ".", "c", "o", "m", "/", "g", "r", "o", "u", "p", "/", "s", "u", "b", "g", "r", "o", "u", "p", "/", "p", "r", "o", "j", "e", "c", "t", ".", "g", "i", "t">>,
      <<"g", "i", "t", "@", "b", "i", "t", "b", "u", "c", "k", "e", "t", ".", "o", "r", "g", ":", "t", "e", "a", "m", "/", "p", "r", "o", "j", "e", "c", "t", ".", "g", "i", "t">>,
      <<"h", "t", "t", "p", "s", ":", "/", "/", "e", "x", "a", "m", "p", "l", "e", ".", "c", "o", "m", "/", "p", "a", "t", "h", "/", "t", "o", "/", "r", "e", "p", "o", ".", "g", "i", "t">>,
      <<"i", "n", "v", "a", "l", "i", "d", "-", "u", "r", "l">>,
      <<>>,
      <<"h", "t", "t", "p", "s", ":", "/", "/", "g", "i", "t", "h", "u", "b", ".", "c", "o", "m", "/">>,
      <<"h", "t", "t", "p", "s", ":", "/", "/", "g", "i", "t", "h", "u", "b", ".", "c", "o", "m">>,
      <<"h", "t", "t", "p", "s", ":", "/", "/", "g", "i", "t", "h", "u", "b", ".", "c", "o", "m", "/", "u", "s", "e", "r", "/", "r", "e", "p", "o", "/">>,
      <<"/">>,
      <<"h", "t", "t", "p", "s", ":", "/", "/">> }

\* The parts the other urls are put together from.
URLHeads == { <<>>, <<"h", "t", "t", "p", "s", ":", "/", "/", "h", ".", "i", "o", "/">>, <<"g", "i", "t", "@", "h", ".", "i", "o", ":">>, <<"g", "i", "t", "@", "h", ".", "i", "o">>, <<"g", "i", "t", "@", "h", ".", "i", "o", ":", "a", ":">> }
URLPaths == { <<>>, <<"r", "e", "p", "o">>, <<"u", "/", "r", "e", "p", "o">>, <<"u", "/">> }
URLTails == { <<>>, <<".", "g", "i", "t">>, <<"/">>, <<".", "g", "i", "t", "/">>, <<"/", ".", "g", "i", "t">>, <<"/", "/">> }
URLPads == { <<>>, <<" ">> }

ParseInputs ==
    TestURLs \cup { pad \o h \o p \o t \o pad : pad \in URLPads, h \in URLHeads, p \in URLPaths, t \in URLTails }

InitParse ==
    /\ LimiterFresh
    /\ users = {}
    /\ sessions = <<>>
    /\ activities = <<>>
    /\ issued = {}
    /\ req = [r \in Reqs |-> IdleReq]
    /\ started = 0
    /\ signedUp = FALSE
    /\ repos = <<>>
    /\ dirs = {}
    /\ coderUp = TRUE
    /\ pending = <<>>
    /\ hist = <<>>
    /\ classify = NoClassify
    /\ \E u \in ParseInputs : parse = [url |-> u, name |-> <<>>, done |-> FALSE]

\* parseRepoName(url) is called and returns; it reads and writes nothing else.
ParseCall ==
    /\ ~parse.done
    /\ parse' = [parse EXCEPT !.name = parseRepoName(parse.url), !.done = TRUE]
    /\ UNCHANGED <<now, attempts, rlhist, users, sessions, activities, issued, req, started,
                   signedUp, repos, dirs, coderUp, pending, hist, classify>>

NextParse == ParseCall

SpecParse == InitParse /\ [][NextParse]_vars

\* The text after the last '/' of s (all of s when it has none).
LastSegment(s) ==
    LET at == {i \in 1..Len(s) : s[i] = "/"}
    IN  IF at = {} THEN s
        ELSE SubSeq(s, (CHOOSE i \in at : \A j \in at : j <= i) + 1, Len(s))

\* s without one trailing '/' and then without a trailing ".git".
StripTail(s) == TrimSuffix(TrimSuffix(s, <<"/">>), <<".", "g", "i", "t">>)

\* The text between the first ':' of s and the next ':' (or the end).
ColonPart(s) ==
    LET at == {i \in 1..Len(s) : s[i] = ":"}
        first == CHOOSE i \in at : \A j \in at : i <= j
        rest == {i \in at : i > first}
        next == IF rest = {} THEN Len(s) + 1 ELSE CHOOSE i \in rest : \A j \in rest : i <= j
    IN  SubSeq(s, first + 1, next - 1)

\* The examples: url and the name it is mapped to.
ParseExamples ==
    { <<<<"h", "t", "t", "p", "s", ":", "/", "/", "g", "i", "t", "h", "u", "b", ".", "c", "o", "m", "/", "u", "s", "e", "r", "/", "r", "e", "p", "o", ".", "g", "i", "t">>,
        <<"r", "e", "p", "o">>>>,
      <<<<"g", "i", "t", "@", "g", "i", "t", "h", "u", "b", ".", "c", "o", "m", ":", "u", "s", "e", "r", "/", "r", "e", "p", "o", ".", "g", "i", "t">>,
        <<"r", "e", "p", "o">>>>,
      <<<<"h", "t", "t", "p", "s", ":", "/", "/", "g", "i", "t", "h", "u", "b", ".", "c", "o", "m", "/", "u", "s", "e", "r", "/", "r", "e", "p", "o", "/">>,
        <<"r", "e", "p", "o">>>>,
      <<<<"h", "t", "t", "p", "s", ":", "/", "/", "g", "i", "t", "h", "u", "b", ".", "c", "o", "m", "/">>,
        <<"g", "i", "t", "h", "u", "b", ".", "c", "o", "m">>>>,
      <<<<"h", "t", "t", "p", "s", ":", "/", "/", "g", "i", "t", "h", "u", "b", ".", "c", "o", "m">>,
        <<"g", "i", "t", "h", "u", "b", ".", "c", "o", "m">>>>,
      <<<<"i", "n", "v", "a", "l", "i", "d", "-", "u", "r", "l">>,
        <<"i", "n", "v", "a", "l", "i", "d", "-", "u", "r", "l">>>>,
      <<<<>>,
        <<>>>>,
      <<<<"/">>,
        <<>>>>,
      <<<<"h", "t", "t", "p", "s", ":", "/", "/">>,
        <<>>>> }

ExamplesHold ==
    \A e \in ParseExamples : (parse.done /\ parse.url = e[1]) => parse.name = e[2]

---------------------------------------------------------------------------
(* More claims about the RateLimiter, checked under SpecRL                 *)

\* Caller c returns from Allow in this step.
Returns(c) == rlpc[c] = "locked" /\ rlpc'[c] = "idle"

\* The timestamps of ts that are less than W old, and at most W old, at time t.
Younger(ts, t) == SelectSeq(ts, LAMBDA a : t - a < window)
NotOlder(ts, t) == SelectSeq(ts, LAMBDA a : t - a <= window)

\* C22: a rejected Allow(key) records nothing: the history stored for the
\* key after the rejection is exactly the in-window timestamps it held
\* before (no timestamp of the rejected call, so a run of rejections leaves
\* the history as the first one left it); an accepted call stores the
\* timestamps it kept followed by exactly one new one, now.
C22_RejectionRecordsNothing ==
    [][ \A c \in Callers :
           Returns(c) =>
              LET key == rlkey[c]
                  before == Lookup(attempts, key)
                  after == Lookup(attempts', key)
              IN  IF lastCall'.ok
                  THEN /\ Len(after) >= 1
                       /\ after[Len(after)] = now
                       /\ SubSeq(after, 1, Len(after) - 1) = Younger(before, now)
                       /\ Len(after) = Len(Younger(before, now)) + 1
                  ELSE /\ after = Younger(before, now)
                       /\ after = NotOlder(before, now)
                       /\ (~lastCall.ok /\ lastCall.key = key /\ lastCall.t = now) => after = before
      ]_vars

\* A key was rejected twice in a row, the second time later than the first,
\* and its history still holds just the N accepted attempts.
C22_Witness ==
    /\ lastCall.key # "none"
    /\ ~lastCall.ok
    /\ lastCall.rejOldest # None
    /\ ~lastCall.accSince
    /\ lastCall.t > 0
    /\ Len(Lookup(attempts, lastCall.key)) = limit
    /\ \A i \in 1..limit : attempts[lastCall.key][i] < lastCall.t


\* The cleanup goroutine finishes a round in this step.
SweepEnds == mu = "cleanup" /\ mu' = "free"

\* ts holds only timestamps of the window that ends at t, in non-decreasing
\* order, and at most N of them.
WindowShaped(ts, t) ==
    /\ \A i \in 1..Len(ts) : ts[i] <= t /\ t - ts[i] < window
    /\ \A i, j \in 1..Len(ts) : i <= j => ts[i] <= ts[j]
    /\ Len(ts) <= limit

\* C23: when an Allow(key) call returns, the sequence stored for the key
\* holds only timestamps inside the trailing window, in non-decreasing time
\* order, and at most N of them; when a sweep round ends, the same is true
\* of every key that is still stored.
C23_RateWindowInvariant ==
    [][ /\ \A c \in Callers :
              Returns(c) => /\ rlkey[c] \in DOMAIN attempts'
                            /\ WindowShaped(attempts'[rlkey[c]], now')
        /\ SweepEnds => \A k \in DOMAIN attempts' : /\ attempts'[k] # <<>>
                                                     /\ WindowShaped(attempts'[k], now')
      ]_vars

\* One key that was once full has aged out and the sweep has deleted it,
\* while the other key holds N timestamps of the current window.
C23_Witness ==
    \E k1, k2 \in Keys :
        /\ k1 \notin DOMAIN attempts
        /\ rej[k1].oldest # None
        /\ k2 \in DOMAIN attempts
        /\ Len(attempts[k2]) = limit
        /\ \A i \in 1..limit : attempts[k2][i] = now


\* C24 as stated: Allow prunes only the timestamps that are older than
\* now - W: an attempt recorded exactly W before the call is kept and counts
\* toward the cap N, and only the attempts strictly older than W are dropped.
C24_WindowBoundary ==
    [][ \A c \in Callers :
           Returns(c) =>
              LET before == Lookup(attempts, rlkey[c])
                  after == Lookup(attempts', rlkey[c])
                  kept == NotOlder(before, now)
              IN  /\ lastCall'.ok <=> Len(kept) < limit
                  /\ after = IF lastCall'.ok THEN Append(kept, now) ELSE kept
      ]_vars


(***************************************************************************)
(* The limiter keys of the handlers: signup and signin requests from two   *)
(* hosts, one of them on two connections, served concurrently.             *)
(***************************************************************************)

\* r.RemoteAddr of the requests: net/http sets it to the "IP:port" of the
\* connection the request came on.
ClientAddrs == {"10.0.0.1:51234", "10.0.0.1:51235", "10.0.0.2:40000"}

\* The IP of a RemoteAddr.
HostOf(addr) ==
    CASE addr = "10.0.0.1:51234" -> "10.0.0.1"
      [] addr = "10.0.0.1:51235" -> "10.0.0.1"
      [] addr = "10.0.0.2:40000" -> "10.0.0.2"

\* The connections the signup requests come on: one of each host.
SignupAddrs == {"10.0.0.1:51234", "10.0.0.2:40000"}

\* The forms they post: complete ones and blank ones.
KeySignupForms == {f \in SignupForms : f.name \in {"Ann", " "}}
KeySigninForms == {f \in SigninForms : f.handle \in {" Ann", " "}}

NextKeys ==
    \/ \E r \in Reqs, a \in SignupAddrs, f \in KeySignupForms : StartSignup(r, a, f)
    \/ \E r \in Reqs : SignupCount(r)
    \/ \E r \in Reqs : SignupRate(r)
    \/ \E r \in Reqs : SignupCreate(r)
    \/ \E r \in Reqs : SignupSession(r)
    \/ \E r \in Reqs : SignupLog(r)
    \/ \E r \in Reqs, a \in ClientAddrs, f \in KeySigninForms : StartSignin(r, a, f)
    \/ \E r \in Reqs : SigninRate(r)
    \/ \E r \in Reqs : SigninRateLog(r)
    \/ \E r \in Reqs : SigninAuth(r)
    \/ \E r \in Reqs : SigninFailLog(r)
    \/ \E r \in Reqs : SigninSession(r)
    \/ \E r \in Reqs : SigninLog(r)
    \/ \E r \in Reqs : Respond(r)

SpecKeys == InitAuth /\ [][NextKeys]_vars

\* Request r passes the limiter check of its handler in this step.
LeavesRate(r) == req[r].pc = "rate" /\ req'[r].pc # "rate"

\* C25: the handlers build the limiter key from the client address and the
\* action name, and Allow(k) leaves the history of every other key as it
\* was: whether a signup or signin request is rejected depends only on the
\* attempts stored under its own (address, action) key, so an exhausted
\* signin quota of an address neither consumes nor blocks the signup quota
\* of that address (and vice versa), nor any quota of another address.
C25_KeysIndependent ==
    [][ /\ \A r \in Reqs :
              LeavesRate(r) =>
                 LET own == req[r].addr \o ":" \o req[r].kind
                 IN  /\ own \in DOMAIN attempts'
                     /\ \A k \in ((DOMAIN attempts) \cup (DOMAIN attempts')) \ {own} :
                           /\ k \in DOMAIN attempts
                           /\ k \in DOMAIN attempts'
                           /\ attempts'[k] = attempts[k]
                     /\ (req'[r].result = "RateLimited")
                           <=> (Len(Younger(Lookup(attempts, own), now)) >= limit)
        /\ (\A r \in Reqs : ~LeavesRate(r)) => attempts' = attempts
      ]_vars

\* The signin quota of the first address is used up and a signin from it
\* was rejected; its signup quota is as it was, and a signin from the
\* second address was admitted and is the only attempt under its key.
C25_Witness ==
    \E r1, r2 \in Reqs :
        /\ req[r1].kind = "signin" /\ req[r1].addr = "10.0.0.1:51234"
        /\ req[r1].pc = "done" /\ req[r1].limited
        /\ req[r2].kind = "signin" /\ req[r2].addr = "10.0.0.2:40000"
        /\ req[r2].pc = "done" /\ ~req[r2].limited
        /\ Len(Lookup(attempts, "10.0.0.1:51234:signin")) = limit
        /\ Len(Lookup(attempts, "10.0.0.1:51234:signup")) = limit - 1
        /\ Len(Lookup(attempts, "10.0.0.2:40000:signin")) = 1

\* C26: the sweep is transparent.  A sweep round deletes a key only when
\* every timestamp of the key has aged out of the window and removes no
\* in-window timestamp of any key; and every Allow call returns what the
\* same call returns from a limiter that received the same calls at the
\* same times and was never swept.
C26_SweepTransparent ==
    [][ /\ SweepEnds =>
              \A k \in DOMAIN attempts :
                  /\ k \notin DOMAIN attempts' => Younger(attempts[k], now) = <<>>
                  /\ Younger(Lookup(attempts', k), now) = Younger(attempts[k], now)
        /\ \A c \in Callers :
              Returns(c) => (lastCall'.ok <=> AllowBody(Lookup(plain, rlkey[c]), now).ok)
      ]_vars

\* A sweep has dropped an old timestamp of a key between two calls of the
\* key (the never-swept limiter still holds it, next to a younger one), and
\* the next call of the key has the lock.
C26_Witness ==
    \E c \in Callers :
        /\ rlpc[c] = "locked"
        /\ rlkey[c] \in DOMAIN attempts
        /\ rlkey[c] \in DOMAIN plain
        /\ Len(plain[rlkey[c]]) > Len(attempts[rlkey[c]])
        /\ Len(attempts[rlkey[c]]) >= 1

\* C24 amended: Allow prunes every timestamp that is not after now - W: an
\* attempt recorded exactly W before the call is dropped and does not count
\* toward the cap N, and exactly the attempts less than W old are kept and
\* counted.
C24_BoundaryExcluded ==
    [][ \A c \in Callers :
           Returns(c) =>
              LET before == Lookup(attempts, rlkey[c])
                  after == Lookup(attempts', rlkey[c])
                  kept == IF lastCall'.ok THEN SubSeq(after, 1, Len(after) - 1) ELSE after
              IN  /\ \A i \in 1..Len(kept) : now - kept[i] < window
                  /\ Len(kept) = Cardinality({i \in 1..Len(before) : now - before[i] < window})
                  /\ \A i \in 1..Len(before) :
                        now - before[i] >= window => \A j \in 1..Len(kept) : kept[j] # before[i]
                  /\ lastCall'.ok <=> Len(kept) < limit
      ]_vars

\* A call of a key was rejected with N attempts in its window, no call of
\* the key was accepted since, and the call made exactly W after the oldest
\* of those attempts was accepted.
C24_Witness ==
    /\ lastCall.key # "none"
    /\ lastCall.ok
    /\ lastCall.rejOldest # None
    /\ ~lastCall.accSince
    /\ lastCall.t = lastCall.rejOldest + window


---------------------------------------------------------------------------
(* More claims about the AuthController, checked under Spec                *)

\* C27: in handleSignup the AlreadyInitialized check comes before the rate
\* limiter and before the field validation: no step of a signup request
\* that arrived after a signup had succeeded touches the limiter, and the
\* request ends with AlreadyInitialized, also when the limiter would have
\* rejected it and when its fields are blank; and whenever the count finds a
\* user, the request ends there, the limiter untouched.
C27_SignupCheckOrder ==
    [][ \A r \in Reqs :
           /\ (req[r].kind = "signup" /\ req[r].afterSuccess /\ req'[r] # req[r]) =>
                 /\ attempts' = attempts
                 /\ users' = users
                 /\ \/ req'[r] = IdleReq
                    \/ req'[r].pc = "done" /\ req'[r].result = "AlreadyInitialized"
           /\ (req[r].kind = "signup" /\ req[r].pc = "count" /\ req'[r] # req[r] /\ users # {}) =>
                 /\ attempts' = attempts
                 /\ req'[r].pc = "done" /\ req'[r].result = "AlreadyInitialized"
      ]_vars

\* A signup with a blank name, from an address whose signup quota is used
\* up, was answered with AlreadyInitialized.
C27_Witness ==
    \E r \in Reqs :
        /\ req[r].kind = "signup" /\ req[r].afterSuccess
        /\ req[r].pc = "done" /\ req[r].result = "AlreadyInitialized"
        /\ req[r].form.name = " "
        /\ Len(Lookup(attempts, req[r].addr \o ":signup")) = limit

\* The signin attempts of the window that came from host h, over all its
\* connections.
RECURSIVE SigninAttempts(_, _)
SigninAttempts(as, h) ==
    IF as = {} THEN 0
    ELSE LET a == CHOOSE x \in as : TRUE
         IN  (IF HostOf(a) = h THEN Len(Younger(Lookup(attempts, a \o ":signin"), now)) ELSE 0)
             + SigninAttempts(as \ {a}, h)

\* C28: every signin request that the limiter admits consumes one attempt
\* of the signin key of its client, whatever the request goes on to do
\* (blank fields, wrong password, success), and a signin request from a
\* client that has made N signin requests within the window is rejected
\* with RateLimited, whatever credentials it carries.
C28_SixthSigninRejected ==
    [][ \A r \in Reqs :
           (LeavesRate(r) /\ req[r].kind = "signin") =>
              LET own == req[r].addr \o ":signin"
              IN  /\ req'[r].result # "RateLimited" =>
                        attempts'[own] = Append(Younger(Lookup(attempts, own), now), now)
                  /\ SigninAttempts(ClientAddrs, HostOf(req[r].addr)) >= limit =>
                        req'[r].result = "RateLimited"
      ]_vars

\* Request r, a signup or a signin, takes a step of its handler.
AuthStep(r) == req[r].kind \in {"signup", "signin"} /\ req'[r] # req[r] /\ req'[r] # IdleReq

\* C29: a signup that succeeds has created an admin user, a session and a
\* cookie, and appends exactly one activity entry, of type auth_signup with
\* the new handle as Author; a signin that succeeds has created a session
\* and a cookie, and appends exactly one entry, of type auth_signin with the
\* handle of the existing user as Author.
C29_SuccessEffects ==
    [][ \A r \in Reqs :
           AuthStep(r) =>
              IF req'[r].pc = "done" /\ req'[r].result = "ok"
              THEN /\ \E u \in users' : /\ u.id = req'[r].uid
                                        /\ req[r].kind = "signup" => (u.admin /\ req'[r].madeUser)
                                        /\ activities'[Len(activities')].author = u.handle
                   /\ req'[r].madeSession
                   /\ \E i \in 1..Len(sessions') : sessions'[i].uid = req'[r].uid
                   /\ req'[r].setCookie = Token(req'[r].uid, FALSE)
                   /\ Len(activities') = Len(activities) + 1
                   /\ SubSeq(activities', 1, Len(activities)) = activities
                   /\ activities'[Len(activities')].type = "auth_" \o req[r].kind
              ELSE req'[r].pc # "done" => activities' = activities
      ]_vars


(***************************************************************************)
(* The access check while the user store changes under it: the record of   *)
(* the signed-up user is deleted from the database, and later another      *)
(* account is created.  Requests for pages behind auth.Required arrive     *)
(* before, between and after.                                              *)
(***************************************************************************)

\* The account created after the first one was deleted.
SecondUser ==
    [id |-> 2, name |-> "Bea", handle |-> "bea", email |-> "bea@x.io",
     password |-> "tr0ub4dor-3", admin |-> TRUE]

\* The user record is deleted from the store; Users.Get of its id fails
\* from now on.
UserDeleted ==
    /\ users # {}
    /\ users' = {}
    /\ UNCHANGED <<sessions, activities, issued, req, started, signedUp, now, attempts,
                   rlhist, repovars>>

\* Another account is created in the emptied store.
UserCreatedAgain ==
    /\ users = {}
    /\ users' = {SecondUser}
    /\ UNCHANGED <<sessions, activities, issued, req, started, signedUp, now, attempts,
                   rlhist, repovars>>

InitGate == LimiterFresh /\ SignedUpState

NextGate ==
    \/ \E r \in Reqs, a \in Addrs, c \in Cookies : StartPage(r, a, c)
    \/ \E r \in Reqs : PageGate(r)
    \/ \E r \in Reqs : Respond(r)
    \/ UserDeleted
    \/ UserCreatedAgain

SpecGate == InitGate /\ [][NextGate]_vars

\* The access check of request r runs in this step.
GateRuns(r) == req[r].kind = "page" /\ req[r].pc = "gate" /\ req'[r].pc = "done"

\* C30: the access check is evaluated on every request against the user
\* store as it is then: a request whose cookie carries a well-formed,
\* unexpired token is allowed only if the token's user id resolves to a user
\* record at that moment, and is treated as unauthenticated (the signin or
\* the signup form) if it does not, whatever an earlier request with the
\* same token was answered.
C30_CheckFollowsUserStore ==
    [][ \A r \in Reqs :
           GateRuns(r) =>
              LET c == req[r].cookie
                  resolves == \E u \in users : u.id = c.uid
              IN  /\ req'[r].result = "allowed" =>
                        (c.kind = "token" /\ ~c.expired /\ resolves)
                  /\ (c.kind = "token" /\ ~c.expired /\ ~resolves) =>
                        req'[r].result \in {"signin.html", "signup.html"}
                  /\ (c.kind = "token" /\ ~c.expired /\ resolves) => req'[r].result = "allowed"
      ]_vars

\* Two requests carried the token of the first user: one was allowed, the
\* other, checked after the account had been replaced, got the signin form.
C30_Witness ==
    \E r1, r2 \in Reqs :
        /\ req[r1].kind = "page" /\ req[r1].pc = "done"
        /\ req[r1].cookie = Token(1, FALSE) /\ req[r1].result = "allowed"
        /\ req[r2].kind = "page" /\ req[r2].pc = "done"
        /\ req[r2].cookie = Token(1, FALSE) /\ req[r2].result = "signin.html"
        /\ users = {SecondUser}


(***************************************************************************)
(* The classification of a failed git clone, as a function of what the     *)
(* command returned.                                                       *)
(***************************************************************************)

\* The phrases CloneRepository looks for in the output, and one it does not
\* look for.
GitPhrases ==
    { "Permission denied", "Could not read from remote", "does not exist", "not found",
      "Could not resolve", "unable to access", "already exists" }

\* What the git clone command can print: any of the phrases together.
ClassifyInputs == SUBSET GitPhrases

InitClassify == LimiterFresh /\ AuthEmpty

\* services.CoderExec(git clone) returns output and err, and CloneRepository
\* goes on from there; nothing else is read or written.
ClassifyCall ==
    /\ ~classify.done
    /\ \E err \in BOOLEAN, output \in ClassifyInputs :
          classify' = [err |-> err, output |-> output,
                       next |-> AfterGitClone(err, output), done |-> TRUE]
    /\ UNCHANGED <<now, attempts, rlhist, users, sessions, activities, issued, req, started,
                   signedUp, repos, dirs, coderUp, pending, hist, parse>>

\* The next command is run.
ClassifyAgain ==
    /\ classify.done
    /\ classify' = NoClassify
    /\ UNCHANGED <<now, attempts, rlhist, users, sessions, activities, issued, req, started,
                   signedUp, repos, dirs, coderUp, pending, hist, parse>>

NextClassify == ClassifyCall \/ ClassifyAgain

SpecClassify == InitClassify /\ [][NextClassify]_vars

\* The kinds of clone failure that have a pattern, in their order of priority.
KindOrder == <<"AuthenticationFailed", "RepositoryNotFound", "NetworkError">>

\* The output mentions what the kind stands for.
Mentions(output, kind) ==
    CASE kind = "AuthenticationFailed" ->
             output \cap {"Permission denied", "Could not read from remote"} # {}
      [] kind = "RepositoryNotFound" -> output \cap {"not found", "does not exist"} # {}
      [] kind = "NetworkError" -> output \cap {"Could not resolve", "unable to access"} # {}
      [] OTHER -> FALSE

\* The earliest kind of KindOrder that the output mentions, or the generic kind.
EarliestKind(output) ==
    LET hits == {i \in 1..Len(KindOrder) : Mentions(output, KindOrder[i])}
    IN  IF hits = {} THEN "CloneFailed"
        ELSE KindOrder[CHOOSE i \in hits : \A j \in hits : i <= j]

\* C31: the classification of a failed git clone is a fixed-priority lookup
\* over its combined output: AuthenticationFailed if the output mentions a
\* permission or credential failure, else NotFound if it mentions not found
\* or does not exist, else NetworkError if it mentions a resolve or access
\* failure, else the generic CloneFailed.  Every output of a failed command
\* gets exactly one of the four kinds, and an output that matches several
\* patterns gets the earliest kind in that order.
C31_ClassificationPriority ==
    (classify.done /\ classify.err) =>
        /\ classify.next.pc = "done"
        /\ classify.next.result \in {KindOrder[i] : i \in 1..Len(KindOrder)} \cup {"CloneFailed"}
        /\ classify.next.result = EarliestKind(classify.output)

\* A failed command whose output matches the patterns of all three kinds
\* was classified as an authentication failure.
C31_Witness ==
    /\ classify.done /\ classify.err
    /\ \A i \in 1..Len(KindOrder) : Mentions(classify.output, KindOrder[i])
    /\ classify.next.result = "AuthenticationFailed"


(***************************************************************************)
(* Operations on one repository: the signed-in user clones, pulls and      *)
(* deletes the repository "repo", at most two requests at a time, while     *)
(* the container may stop, start and be rebuilt.                           *)
(***************************************************************************)

\* How many requests for the repository are followed.
MaxSyncRequests == 3

SyncURL == <<" ", "h", "t", "t", "p", "s", ":", "/", "/", "h", ".", "i", "o", "/", "u", "/", "r", "e", "p", "o", ".", "g", "i", "t", "/">>
SyncName == <<"r", "e", "p", "o">>

\* The record a successful clone of SyncURL creates.
SyncRecord ==
    [name |-> SyncName, url |-> SyncURL, path |-> TargetDir(SyncName), private |-> FALSE]

\* POST /repos/clone with the url, or /repos/pull/repo or /repos/delete/repo,
\* with the session cookie of the user.
StartSync(r, route) ==
    /\ req[r].pc = "idle"
    /\ started < MaxSyncRequests
    /\ started' = started + 1
    /\ req' = [req EXCEPT ![r] = [NewReq(route, "gate", "10.0.0.1:51234", NoForm, Token(1, FALSE))
                                    EXCEPT !.url = IF route = "clone" THEN SyncURL ELSE <<>>,
                                           !.name = IF route = "clone" THEN <<>> ELSE SyncName]]
    /\ UNCHANGED <<acctvars, activities, repovars>>

InitSync == LimiterFresh /\ SignedUpState

NextSync ==
    \/ \E r \in Reqs, route \in Routes : StartSync(r, route)
    \/ \E r \in Reqs : RepoGate(r)
    \/ \E r \in Reqs : CloneRunning(r)
    \/ \E r \in Reqs : CloneFind(r)
    \/ \E r \in Reqs : CloneMkdir(r)
    \/ \E r \in Reqs : CloneTest(r)
    \/ \E r \in Reqs : CloneGit(r)
    \/ \E r \in Reqs : CloneInsert(r)
    \/ \E r \in Reqs : RepoFind(r)
    \/ \E r \in Reqs : PullTest(r)
    \/ \E r \in Reqs : PullMkdir(r)
    \/ \E r \in Reqs : PullReclone(r)
    \/ \E r \in Reqs : PullGit(r)
    \/ \E r \in Reqs : DeleteRm(r)
    \/ \E r \in Reqs : DeleteRow(r)
    \/ \E i \in 1..MaxSyncRequests : ActivityInsert(i)
    \/ \E i \in 1..MaxSyncRequests : ActivityInsertFails(i)
    \/ VolumeRebuilt
    \/ CoderStop
    \/ CoderStart
    \/ \E r \in Reqs : Respond(r)

SpecSync == InitSync /\ [][NextSync]_vars

\* Request r is a pull and takes a step.
PullSteps(r) == req'[r] # req[r] /\ req'[r].kind = "pull"

InOperation(r) ==
    /\ req[r].kind \in Routes
    /\ req[r].pc \notin {"idle", "gate", "running", "find", "done"}

\* No two operations on the repository are between their first check and
\* their return at the same time.
OneAtATime ==
    \A r1, r2 \in Reqs : (r1 # r2 /\ InOperation(r1)) => ~InOperation(r2)

\* A pull and a successful delete of the repository have both returned: the
\* directory is not there without the record.
NoOrphanDirectory ==
    \A r1, r2 \in Reqs :
        (/\ req[r1].kind = "pull" /\ req[r1].pc = "done"
         /\ req[r2].kind = "delete" /\ req[r2].pc = "done" /\ req[r2].result = "ok") =>
            ~(TargetDir(SyncName) \in dirs /\ FindByName(repos, SyncName) = NoRepo)

\* C33: operations on the same repository name are serialized.  The check,
\* exec and database steps of a concurrent pull and delete (or clone and
\* delete) of one name do not interleave, so no run of them ends with the
\* directory of the name present in the container and its record absent.
C33_Serialized == OneAtATime /\ NoOrphanDirectory


\* The goroutines started by "go models.Activities.Insert" are scheduled:
\* an entry that was handed over does not wait for ever.
SpecSyncFair ==
    SpecSync /\ WF_vars(\E i \in 1..MaxSyncRequests : ActivityInsert(i) \/ ActivityInsertFails(i))

\* Request r returns in this step, without or with an error.
SucceedsIn(r) ==
    /\ req[r].pc # "done" /\ req'[r].pc = "done"
    /\ req'[r].kind \in Routes /\ req'[r].result = "ok"
FailsIn(r) ==
    /\ req[r].pc # "done" /\ req'[r].pc = "done"
    /\ req'[r].kind \in Routes /\ req'[r].result # "ok"

\* The activity type of a successful operation.
TypeOf(kind) ==
    CASE kind = "clone" -> "repo_clone" [] kind = "pull" -> "repo_pull" [] OTHER -> "repo_delete"

\* The step in which an operation returns without error hands exactly one
\* entry to the log, of the type of the operation, naming the repository,
\* with Author "System"; no other step hands one over.
HandsOverOne ==
    /\ \A r \in Reqs :
          SucceedsIn(r) =>
              /\ Len(pending') = Len(pending) + 1
              /\ SubSeq(pending', 1, Len(pending)) = pending
              /\ pending'[Len(pending')].type = TypeOf(req'[r].kind)
              /\ pending'[Len(pending')].repository = SyncName
              /\ pending'[Len(pending')].author = "System"
    /\ Len(pending') > Len(pending) => \E r \in Reqs : SucceedsIn(r)

\* The step in which an operation returns an error hands nothing over and
\* appends nothing.
FailedAddsNone ==
    \A r \in Reqs : FailsIn(r) => (pending' = pending /\ activities' = activities)

\* The log only grows, and at its end: no entry is modified or removed.
AppendOnly ==
    /\ Len(activities') >= Len(activities)
    /\ SubSeq(activities', 1, Len(activities)) = activities

\* pending without its i-th entry.
Without(i) == SubSeq(pending, 1, i - 1) \o SubSeq(pending, i + 1, Len(pending))

\* The log changes only when an entry that was handed over is appended to it.
AppendsHandedOver ==
    activities' # activities =>
        \E i \in 1..Len(pending) :
            pending' = Without(i) /\ activities' = Append(activities, pending[i])

\* An entry that was handed over leaves the goroutine only into the log.
NeverLost == Len(pending') < Len(pending) => activities' # activities

\* An entry that was handed over leaves the goroutine into the log, or
\* because its insert failed.
AppendedOrInsertFailed ==
    Len(pending') < Len(pending) =>
        \E i \in 1..Len(pending) :
            /\ pending' = Without(i)
            /\ activities' = Append(activities, pending[i]) \/ activities' = activities

\* C34 as stated: each successful clone, pull (normal or re-clone) and
\* delete eventually appends exactly one activity entry (repo_clone,
\* repo_pull, repo_delete) naming the repository with Author "System", every
\* failed operation appends none, and no entry is ever modified or removed.
C34_OneEntryPerSuccess ==
    /\ [][HandsOverOne /\ FailedAddsNone /\ AppendOnly /\ AppendsHandedOver /\ NeverLost]_vars
    /\ <>[](pending = <<>>)

\* C34: each successful clone, pull (normal or re-clone) and delete hands
\* exactly one activity entry (repo_clone, repo_pull, repo_delete) naming the
\* repository with Author "System" to an asynchronous insert, which
\* eventually appends it exactly once or fails and appends nothing; every
\* failed operation appends none, and no entry is ever modified or removed.
C34_OneEntryUnlessInsertFails ==
    /\ [][HandsOverOne /\ FailedAddsNone /\ AppendOnly /\ AppendsHandedOver
            /\ AppendedOrInsertFailed]_vars
    /\ <>[](pending = <<>>)

\* A clone, a pull and a delete of the repository have succeeded, and the
\* log ends with their three entries, nothing waiting.
C34_Witness ==
    /\ pending = <<>>
    /\ Len(activities) = 4
    /\ activities[2].type = "repo_clone" /\ activities[3].type = "repo_pull"
    /\ activities[4].type = "repo_delete"
    /\ \A i \in 2..4 : activities[i].repository = SyncName /\ activities[i].author = "System"
    /\ repos = <<>>


(***************************************************************************)
(* One operation at a time on the repository: each clone, pull or delete   *)
(* of "repo" is made after the one before has returned, while the          *)
(* container may stop, start and be rebuilt.                               *)
(***************************************************************************)

InitHeal == LimiterFresh /\ SignedUpState

NextHeal ==
    \/ \E route \in Routes : StartSync("r1", route)
    \/ RepoGate("r1")
    \/ CloneRunning("r1")
    \/ CloneFind("r1")
    \/ CloneMkdir("r1")
    \/ CloneTest("r1")
    \/ CloneGit("r1")
    \/ CloneInsert("r1")
    \/ RepoFind("r1")
    \/ PullTest("r1")
    \/ PullMkdir("r1")
    \/ PullReclone("r1")
    \/ PullGit("r1")
    \/ DeleteRm("r1")
    \/ DeleteRow("r1")
    \/ \E i \in 1..MaxSyncRequests : ActivityInsert(i)
    \/ \E i \in 1..MaxSyncRequests : ActivityInsertFails(i)
    \/ VolumeRebuilt
    \/ CoderStop
    \/ CoderStart
    \/ Respond("r1")

SpecHeal == InitHeal /\ [][NextHeal]_vars

\* The record that request r found is in the table and its directory is
\* missing in the container.
Stale(r) ==
    /\ req[r].found # NoRepo
    /\ FindByName(repos, req[r].name) = req[r].found
    /\ req[r].found.path \notin dirs

\* C35: stale-record recovery.  With a record whose directory is missing
\* (a delete stopped after its filesystem step, or the volume was rebuilt):
\* a delete is not stopped by the missing directory, its removal and its
\* record deletion can succeed, and when it returns without error the
\* record is gone and the directory absent; a pull takes the re-clone path,
\* and when its re-clone succeeds the directory is back at the recorded
\* LocalPath and the record is found unchanged.  In both cases record and
\* directory agree when the operation returns.
C35_StaleRecordRecovery ==
    [][ LET r == "r1"
        IN  /\ (req[r].kind = "delete" /\ req[r].pc = "rm" /\ Stale(r) /\ coderUp) =>
                  ENABLED (DeleteRm(r) /\ req'[r].pc = "record")
            /\ (req[r].kind = "delete" /\ req[r].pc = "record" /\ Stale(r)) =>
                  ENABLED (DeleteRow(r) /\ req'[r].result = "ok")
            /\ (req[r].kind = "delete" /\ req[r].pc = "record" /\ SucceedsIn(r)) =>
                  /\ FindByName(repos', req[r].name) = NoRepo
                  /\ req[r].found.path \notin dirs'
            /\ (req[r].kind = "pull" /\ req[r].pc = "test" /\ Stale(r)) =>
                  req'[r].pc \in {"test", "mkdir"}
            /\ (req[r].kind = "pull" /\ req[r].pc = "reclone" /\ SucceedsIn(r)) =>
                  /\ req[r].found.path \in dirs'
                  /\ repos' = repos
                  /\ FindByName(repos', req[r].name) = req[r].found
                  /\ req[r].found.path = TargetDir(SyncName)
      ]_vars

\* The volume was rebuilt after the clone: the pull found the record, its
\* directory test in the running container found nothing, and its re-clone
\* has brought the directory back, the record as the clone made it.
C35_Witness ==
    /\ req["r1"].kind = "pull" /\ req["r1"].pc = "done" /\ req["r1"].result = "ok"
    /\ req["r1"].cloned /\ ~req["r1"].testDir /\ req["r1"].testUp
    /\ req["r1"].found = SyncRecord
    /\ repos = <<SyncRecord>>
    /\ SyncRecord.path \in dirs


(***************************************************************************)
(* The SSH branch of parseRepoName.                                        *)
(***************************************************************************)

GitAt == <<"g", "i", "t", "@">>

\* The positions of the ':' in s.
Colons(s) == {i \in 1..Len(s) : s[i] = ":"}

\* The path of the SSH short form user@host:path: the text after the first ':'.
PathAfterColon(s) ==
    LET first == CHOOSE i \in Colons(s) : \A j \in Colons(s) : i <= j
    IN  SubSeq(s, first + 1, Len(s))

\* The text before the first ':' (all of s when it has none).
HostPart(s) ==
    IF Colons(s) = {} THEN s
    ELSE SubSeq(s, 1, (CHOOSE i \in Colons(s) : \A j \in Colons(s) : i <= j) - 1)

\* C36: the SSH branch of parseRepoName.  For a url that, cleaned, starts
\* with "git@", the result is the last '/'-separated segment of the path
\* after the ':' when that segment is not empty, and the empty string
\* otherwise (no ':', or an empty last segment); the result is never what
\* the HTTPS branch would return for a url without ':' and never the host
\* string.
C36_SSHBranch ==
    LET c == StripTail(TrimSpaceSeq(parse.url))
    IN  (parse.done /\ HasPrefix(c, GitAt)) =>
            /\ parse.name = IF Colons(c) = {} THEN <<>> ELSE LastSegment(PathAfterColon(c))
            /\ parse.name # HostPart(c)


(***************************************************************************)
(* A clone whose record cannot be saved.                                   *)
(***************************************************************************)

\* The directory of the repository is in the container and no record has
\* its name.
Orphan ==
    /\ TargetDir(SyncName) \in dirs
    /\ \A i \in 1..Len(repos) : Lower(repos[i].name) # Lower(SyncName)

\* Request r takes a step from position pc of a route.
StepsFrom(r, kind, pc) == req[r].kind = kind /\ req[r].pc = pc /\ req'[r] # req[r]

\* The step in which the insert of a clone fails returns the error, leaves
\* the cloned directory in the container and makes no record.
SaveFailedLeavesClone ==
    \A r \in {"r1"} :
        (StepsFrom(r, "clone", "insert") /\ req'[r].result = "SaveFailed") =>
            /\ req'[r].pc = "done" /\ req[r].cloned /\ ~req'[r].wrote
            /\ repos' = repos /\ pending' = pending /\ dirs' = dirs
            /\ TargetDir(SyncName) \in dirs => Orphan'

\* While the directory is there without a record, a delete reports NotFound
\* and runs nothing, and no step of a clone, pull or delete removes the
\* directory.
OrphanStays ==
    /\ \A r \in {"r1"} :
          (StepsFrom(r, "delete", "find") /\ Orphan) =>
              (req'[r].pc = "done" /\ req'[r].result = "NotFound" /\ req'[r].execs = {})
    /\ (Orphan /\ TargetDir(SyncName) \notin dirs') => req' = req

PrintedExists(r) == req[r].testUp /\ req[r].testDir

\* The errors PullRepository returns after a failed git pull.
PullFailures == {"AuthenticationFailed", "MergeConflict", "UncommittedChanges", "PullFailed"}

\* C38: a pull takes the re-clone path exactly when its directory test did
\* not print "exists"; a test that failed as an exec (the container not
\* running) counts as a missing directory.  Such a pull attempts git clone
\* and, when that fails too, returns the re-clone failure and not a pull
\* failure; git pull is executed only when the test printed "exists".
C38_PullPaths ==
    \A r \in Reqs :
        (req[r].kind = "pull" /\ "test" \in req[r].execs) =>
            /\ ~PrintedExists(r) =>
                  /\ req[r].pc \in {"mkdir", "reclone", "done"}
                  /\ "pull" \notin req[r].execs
                  /\ req[r].pc = "done" =>
                        /\ "clone" \in req[r].execs
                        /\ req[r].result \in {"ok", "RecloneFailed"}
                        /\ req[r].result = "ok" <=> req[r].cloned
            /\ PrintedExists(r) =>
                  /\ req[r].pc \in {"pull", "done"}
                  /\ "clone" \notin req[r].execs /\ "mkdir" \notin req[r].execs
                  /\ req[r].pc = "done" =>
                        /\ "pull" \in req[r].execs
                        /\ req[r].result \in {"ok"} \cup PullFailures

\* The directory was there, but the container was not running when the
\* pull tested for it: the pull went to the re-clone, which failed, and
\* returned the re-clone failure without running git pull.
C38_Witness ==
    \E r \in Reqs :
        /\ req[r].kind = "pull" /\ req[r].pc = "done" /\ req[r].result = "RecloneFailed"
        /\ req[r].testDir /\ ~req[r].testUp
        /\ "clone" \in req[r].execs /\ "pull" \notin req[r].execs
        /\ req[r].found.path \in dirs


(***************************************************************************)
(* Partial signup: the user is created and the session is not.  In         *)
(* handleSignup two steps follow the insert of the user: the session       *)
(* token is generated (an error is rendered and the handler returns) and,  *)
(* after the cookie is set, the session record is inserted (the result is  *)
(* discarded).  Checked under Spec.                                        *)
(***************************************************************************)

\* The signup request r has created its user and is past the creation of
\* the session without one: the token was not generated, or the record was
\* not inserted.
SessionFailed(r) ==
    /\ req[r].kind = "signup"
    /\ req[r].madeUser
    /\ req[r].pc \in {"log", "done"}
    /\ ~req[r].madeSession

\* C39: a signup whose user was created and whose session was not reports
\* an error and sets no cookie, and the user it created remains in the
\* store.
C39_PartialSignup ==
    \A r \in Reqs :
        SessionFailed(r) =>
            /\ req[r].setCookie = NoCookie
            /\ req[r].pc = "done" => req[r].result # "ok"
            /\ \E u \in users : u.id = req[r].uid

(***************************************************************************)
(* Signout and the token it leaves behind.  Checked under Spec: signouts   *)
(* run next to signups, signins and page requests, and a page request may  *)
(* present any token issued so far, expired or not.                        *)
(***************************************************************************)

\* Request r, a signout, takes a step of its handler.
SignoutStep(r) == req[r].kind = "signout" /\ req'[r] # req[r]

\* A signout that presented the cookie has completed.
SignedOutWith(cookie) ==
    \E r \in Reqs : /\ req[r].kind = "signout" /\ req[r].pc = "done"
                    /\ req[r].cookie = cookie /\ req[r].setCookie = Cleared

====
